---- MODULE Spec2Model ----
(***************************************************************************)
(* DiffETL: the incremental batch extractor (LocalGitClient,               *)
(* LocalGitRepository, RawCommitsBatch), the commit graph (CommitElement,  *)
(* CommitGraph), the diff tree (Diff, DiffElement), the commit metadata    *)
(* (CommitMetadata, BranchType, BotType) and the message assessor          *)
(* (MessageQualityAssessor), modelled as state machines.                   *)
(*                                                                         *)
(* A commit is identified by its hexsha; a branch history is the ordered   *)
(* list of commits that repo.iter_commits(branch) produces (newest first). *)
(* Python's None is the distinguished string None.  load_id and            *)
(* load_timestamp of a batch are written once and never read by the        *)
(* extractor; they are left out.                                           *)
(*                                                                         *)
(* The specifications share the variables: Spec (a LocalGitRepository     *)
(* over a LocalGitClient, its directory on disk and the remote), SpecBatch *)
(* (one RawCommitsBatch whose methods are called in any order), SpecGraph  *)
(* (one CommitGraph), SpecTree (a Diff under any add_element and           *)
(* add_children calls), SpecForest (a Diff in which every element is       *)
(* placed once), SpecFlat (a Diff of root elements), SpecFile (one         *)
(* _create_file_element call), SpecToDiff (one to_diff call), SpecMeta     *)
(* (one CommitMetadata construction), SpecAssess (one validate_message     *)
(* call), SpecEnum (one FileType classification), SpecPr (one PRState      *)
(* classification), SpecEq (one comparison of a CommitElement), SpecResume *)
(* (a caller that resumes extraction from the returned cursor), SpecNested *)
(* (the stats of a Diff with nested elements), SpecPager (one generator of *)
(* a paged GraphQL connection) and SpecColl (one collection fetched any    *)
(* number of times).  Each leaves the others' variables idle.              *)
(* Histories are drawn from the three hexsha values of Shas, so a history  *)
(* holds at most min(MaxHist, 3) commits.  A str is a TLA+ string, read    *)
(* with Len, SubSeq and \o; the bytes of a patch are a sequence of the     *)
(* four byte values of Bytes.  FileMetadata.type is left out of a file     *)
(* element; FileType is classified on its own.  mimetypes.guess_type is    *)
(* read for paths without a URL scheme, under a table of types that is     *)
(* part of the environment.                                                *)
(***************************************************************************)
EXTENDS Integers, Sequences, FiniteSets, TLC

VARIABLES remote, disk, client, call, listed, ret, obj, elements, index, yielded,
          roots, kids, parent, ident, query, flat, agg, item, made, items, built,
          commit, meta, assessor, validation,
          given_path, known_types, file_type,
          payload, pr_state,
          lhs, rhs, str_hash, compared,
          resumed,
          etype,
          pager,
          coll, fetch_calls

vars == <<remote, disk, client, call, listed, ret, obj, elements, index, yielded,
          roots, kids, parent, ident, query, flat, agg, item, made, items, built,
          commit, meta, assessor, validation,
          given_path, known_types, file_type,
          payload, pr_state,
          lhs, rhs, str_hash, compared,
          resumed,
          etype,
          pager,
          coll, fetch_calls>>

extractVars == <<remote, disk, client, call, listed, ret>>
graphVars == <<elements, index, yielded>>
treeVars == <<roots, kids, parent, ident, query>>
flatVars == <<flat, agg>>
fileVars == <<item, made, items, built>>
metaVars == <<commit, meta>>
assessVars == <<assessor, validation>>
enumVars == <<given_path, known_types, file_type>>
prVars == <<payload, pr_state>>
eqVars == <<lhs, rhs, str_hash, compared>>
resumeVars == <<resumed>>
nestVars == <<etype>>
pagerVars == <<pager>>
collVars == <<coll, fetch_calls>>
transformVars ==
  <<treeVars, flatVars, fileVars, metaVars, assessVars, enumVars, prVars, eqVars, resumeVars, nestVars, pagerVars, collVars>>
notTreeVars == <<extractVars, obj, graphVars, flatVars, fileVars, metaVars, assessVars, enumVars, prVars, eqVars, resumeVars, nestVars, pagerVars, collVars>>
notFlatVars == <<extractVars, obj, graphVars, treeVars, fileVars, metaVars, assessVars, enumVars, prVars, eqVars, resumeVars, nestVars, pagerVars, collVars>>
notFileVars == <<extractVars, obj, graphVars, treeVars, flatVars, metaVars, assessVars, enumVars, prVars, eqVars, resumeVars, nestVars, pagerVars, collVars>>
notMetaVars == <<extractVars, obj, graphVars, treeVars, flatVars, fileVars, assessVars, enumVars, prVars, eqVars, resumeVars, nestVars, pagerVars, collVars>>
notAssessVars == <<extractVars, obj, graphVars, treeVars, flatVars, fileVars, metaVars, enumVars, prVars, eqVars, resumeVars, nestVars, pagerVars, collVars>>
notPrVars ==
  <<extractVars, obj, graphVars, treeVars, flatVars, fileVars, metaVars, assessVars, enumVars, eqVars, resumeVars, nestVars, pagerVars, collVars>>
notEnumVars ==
  <<extractVars, obj, graphVars, treeVars, flatVars, fileVars, metaVars, assessVars, prVars, eqVars, resumeVars, nestVars, pagerVars, collVars>>
notEqVars ==
  <<extractVars, obj, graphVars, treeVars, flatVars, fileVars, metaVars, assessVars, enumVars, prVars, resumeVars, nestVars, pagerVars, collVars>>
notExtractResumeVars ==
  <<obj, graphVars, treeVars, flatVars, fileVars, metaVars, assessVars, enumVars, prVars, eqVars, nestVars, pagerVars, collVars>>
notTreeAggVars ==
  <<extractVars, obj, graphVars, fileVars, metaVars, assessVars, enumVars, prVars, eqVars, resumeVars, nestVars, pagerVars, collVars>>
notPagerVars ==
  <<extractVars, obj, graphVars, treeVars, flatVars, fileVars, metaVars, assessVars, enumVars, prVars, eqVars, resumeVars, nestVars, collVars>>
notCollVars ==
  <<extractVars, obj, graphVars, treeVars, flatVars, fileVars, metaVars, assessVars, enumVars, prVars, eqVars, resumeVars, nestVars, pagerVars>>

None == "None"

\* ------------------------------------------------------------------ bounds
MaxHist == 3
MaxBatch == 2
MaxRaw == 2
MaxElems == 2
MaxParents == 2
MaxAdds == 3
MaxRoots == 3
MaxBytes == 4
MaxItems == 2
MaxBranches == 2
MaxCalls == 4
MaxPages == 3
MaxFetches == 3
MaxRecords == 2

\* ------------------------------------------------------------- value sets
Shas == {"a", "b", "c"}
KnownBranch == "main"
BranchArgs == {KnownBranch, "gone"}
RepoUrl == "https://host/owner/repo.git"

InjSeqs(S, n) ==
  UNION {{s \in [1..k -> S] : \A i, j \in 1..k : i # j => s[i] # s[j]} : k \in 0..n}

Suffixes(h) == {SubSeq(h, k, Len(h)) : k \in 1..(Len(h) + 1)}

Last(s) == s[Len(s)]

\* A GitCommit, as far as the extractor reads it.
GitCommit(sha) == [hexsha |-> sha]

Commits(h) == [i \in 1..Len(h) |-> GitCommit(h[i])]

RECURSIVE IndexOf(_, _, _)
IndexOf(h, x, i) ==
  IF i > Len(h) THEN 0 ELSE IF h[i] = x THEN i ELSE IndexOf(h, x, i + 1)

\* -------------------------------------------------------------- exceptions
NoExc == [type |-> None, msg |-> None]
Exc(t, m) == [type |-> t, msg |-> m]

\* str(e)
Str(e) == e.msg

\* ------------------------------------------------- extract/batch.py
SourceInfo(url, branch) == [repo_url |-> url, branch |-> branch]

\* RawCommitsBatch(load_id, load_timestamp, source_info): the dataclass defaults.
NewBatch(source_info) ==
  [source_info |-> source_info, raw_commits |-> <<>>, status |-> "loading",
   error |-> None]

RawCommit(gc) == [git_commit |-> gc]

add_commits(b, git_commits) ==
  [b EXCEPT !.raw_commits =
     b.raw_commits \o [i \in 1..Len(git_commits) |-> RawCommit(git_commits[i])]]

mark_failed(b, error) == [b EXCEPT !.error = error, !.status = "failed"]

ExpectedGot(expected, actual) ==
  "Expected " \o ToString(expected) \o ", got " \o ToString(actual)

validate_lenient(b, expected, actual) ==
  IF actual > expected
    THEN mark_failed(b, ExpectedGot(expected, actual))
    ELSE [b EXCEPT !.status = "success"]

validate_silent(b, expected, actual) ==
  IF expected # actual
    THEN [b EXCEPT !.error = ExpectedGot(expected, actual)]
    ELSE [b EXCEPT !.status = "success"]

validate(b, expected, actual) ==
  IF expected # actual
    THEN mark_failed(b, ExpectedGot(expected, actual))
    ELSE [b EXCEPT !.status = "success"]

\* ------------------------------------------------- extract/client.py
NoDir == [exists |-> FALSE, hist |-> <<>>, dirty |-> FALSE]
Dir(h, d) == [exists |-> TRUE, hist |-> h, dirty |-> d]

NewClient == [cloned |-> FALSE, repo |-> None]

\* The body of LocalGitClient._clone under "if not self._cloned": the client and
\* the directory afterwards, and the exception it raised (NoExc when it returned).
_clone_body(cl, dk, rem, fault) ==
  IF dk.exists
    THEN IF fault = "open"
           THEN [client |-> cl, disk |-> dk,
                 raised |-> Exc("InvalidGitRepositoryError", "not a repository")]
           ELSE IF ~dk.dirty
                  THEN IF fault = "pull"
                         THEN [client |-> [cl EXCEPT !.repo = "repo"], disk |-> dk,
                               raised |-> Exc("GitCommandError", "pull failed")]
                         ELSE [client |-> [cloned |-> TRUE, repo |-> "repo"],
                               disk |-> Dir(rem, FALSE), raised |-> NoExc]
                  ELSE [client |-> [cloned |-> TRUE, repo |-> "repo"],
                        disk |-> dk, raised |-> NoExc]
    ELSE IF fault = "clone"
           THEN [client |-> cl, disk |-> dk,
                 raised |-> Exc("GitCommandError", "clone failed")]
           ELSE [client |-> [cloned |-> TRUE, repo |-> "repo"],
                 disk |-> Dir(rem, FALSE), raised |-> NoExc]

_clone_unguarded(cl, dk, rem, fault) == _clone_body(cl, dk, rem, fault)

_clone(cl, dk, rem, fault) ==
  IF ~cl.cloned
    THEN _clone_body(cl, dk, rem, fault)
    ELSE [client |-> [cl EXCEPT !.cloned = TRUE], disk |-> dk, raised |-> NoExc]

\* The for loop of list_commits over the traversal h, from position i.
RECURSIVE Collect(_, _, _, _, _, _)
Collect(h, i, skip, batch, batch_size, last_sha) ==
  IF i > Len(h)
    THEN batch
    ELSE IF skip
           THEN Collect(h, i + 1, h[i] # last_sha, batch, batch_size, last_sha)
           ELSE LET b == Append(batch, GitCommit(h[i]))
                IN IF Len(b) = batch_size
                     THEN b
                     ELSE Collect(h, i + 1, FALSE, b, batch_size, last_sha)

InitialSkip_never(last_sha) == FALSE

\* skip = last_sha is not None
InitialSkip(last_sha) == last_sha # None

NewLastSha_first(batch) == IF Len(batch) > 0 THEN batch[1].hexsha ELSE None

\* new_last_sha = batch[-1].hexsha if batch else None
NewLastSha(batch) == IF Len(batch) > 0 THEN Last(batch).hexsha ELSE None

\* LocalGitClient.list_commits: what it returns or raises, and the client and
\* directory it leaves.
list_commits(cl, dk, rem, batch_size, branch, last_sha, fault) ==
  LET c == _clone(cl, dk, rem, fault)
      out(e, b, n) == [client |-> c.client, disk |-> c.disk, raised |-> e,
                       commits |-> b, new_last_sha |-> n]
  IN IF c.raised # NoExc
       THEN out(c.raised, <<>>, None)
       ELSE IF c.client.repo = None
              THEN out(Exc("RuntimeError", "Init repo failed."), <<>>, None)
              ELSE IF branch # KnownBranch
                     THEN out(Exc("GitCommandError", "bad revision"), <<>>, None)
                     ELSE IF fault = "iter" /\ Len(c.disk.hist) > 0
                            THEN out(Exc("ValueError", "bad object"), <<>>, None)
                            ELSE LET batch == Collect(c.disk.hist, 1,
                                                      InitialSkip(last_sha), <<>>,
                                                      batch_size, last_sha)
                                 IN out(NoExc, batch, NewLastSha(batch))

\* ------------------------------------------------- extract/repository.py
Catches_runtime_only(e) == e.type = "RuntimeError"

\* except Exception as e
Catches(e) == TRUE

\* LocalGitRepository.extract_commits_batch, given what list_commits did: the
\* batch and cursor returned, the statuses the batch went through, and the
\* exception that left the call (NoExc when it returned).
extract_commits_batch(url, lc, batch_size, branch, last_sha) ==
  LET b0 == NewBatch(SourceInfo(url, branch))
  IN IF lc.raised = NoExc
       THEN LET b1 == add_commits(b0, lc.commits)
                b2 == validate(b1, batch_size, Len(lc.commits))
            IN [batch |-> b2, cursor |-> lc.new_last_sha,
                trail |-> <<b0.status, b1.status, b2.status>>,
                propagated |-> NoExc]
       ELSE IF Catches(lc.raised)
              THEN LET b1 == mark_failed(b0, Str(lc.raised))
                   IN [batch |-> b1, cursor |-> last_sha,
                       trail |-> <<b0.status, b1.status>>, propagated |-> NoExc]
              ELSE [batch |-> b0, cursor |-> None, trail |-> <<b0.status>>,
                    propagated |-> lc.raised]

\* ------------------------------------------------- transform/commit.py
\* A CommitElement, as far as the graph reads it: commit.hexsha and
\* commit.parents_hexsha.
CommitElement(sha, parents) == [hexsha |-> sha, parents_hexsha |-> parents]

\* CommitGraph.__init__: {e.hexsha: e for e in elements}; a later element with
\* the same hexsha replaces an earlier one.
RECURSIVE CommitMap(_, _, _)
CommitMap(els, i, m) ==
  IF i > Len(els)
    THEN m
    ELSE CommitMap(els, i + 1,
                   [s \in DOMAIN m \cup {els[i].hexsha} |->
                      IF s = els[i].hexsha THEN els[i] ELSE m[s]])

\* None where a CommitElement is expected.
NoElement == CommitElement(None, <<>>)

\* commit_map.get(parent_hash)
Get(m, k) == IF k \in DOMAIN m THEN m[k] ELSE NoElement

RECURSIVE iter_parents_from(_, _, _)
iter_parents_from(ps, i, commit_map) ==
  IF i > Len(ps)
    THEN <<>>
    ELSE LET parent_element == Get(commit_map, ps[i])
         IN IF parent_element # NoElement
              THEN <<parent_element>> \o iter_parents_from(ps, i + 1, commit_map)
              ELSE iter_parents_from(ps, i + 1, commit_map)

RECURSIVE iter_parents_until_missing(_, _, _)
iter_parents_until_missing(ps, i, commit_map) ==
  IF i > Len(ps) \/ Get(commit_map, ps[i]) = NoElement
    THEN <<>>
    ELSE <<Get(commit_map, ps[i])>> \o iter_parents_until_missing(ps, i + 1, commit_map)

iter_parents_break(element, commit_map) ==
  iter_parents_until_missing(element.parents_hexsha, 1, commit_map)

\* CommitElement.iter_parents(commit_map), as CommitGraph.iter_parents calls it.
iter_parents(element, commit_map) ==
  iter_parents_from(element.parents_hexsha, 1, commit_map)

\* ------------------------------------------------- transform/diff.py
\* DiffElement objects are named by Nodes; kids[n] is n._children, parent[n] is
\* n.parent, ident[n] is n.identifier, and roots is Diff._elements.
Nodes == {"n1", "n2", "n3"}
Identifiers == {"x", "y"}

\* The interpreter's recursion limit, as deep as no walk of distinct nodes goes.
RecursionLimit == Cardinality(Nodes) + 1
RecursionError == "RecursionError"

NoKids == [n \in Nodes |-> <<>>]
NoParents == [n \in Nodes |-> None]

\* DiffElement.add_children, called on p with child c.
add_children_parent(par, p, c) == [par EXCEPT ![c] = p]
add_children_kids(k, p, c) == [k EXCEPT ![p] = Append(@, c)]

\* Diff.add_element
add_element(els, n) == Append(els, n)

RECURSIVE WalkNode(_, _, _)
RECURSIVE WalkEach(_, _, _, _)
\* Diff._walk: the elements yielded, RecursionError among them where the
\* recursion went deeper than the limit.
WalkNode(element, k, depth) ==
  IF depth > RecursionLimit
    THEN <<RecursionError>>
    ELSE <<element>> \o WalkEach(k[element], 1, k, depth + 1)

WalkEach(els, i, k, depth) ==
  IF i > Len(els)
    THEN <<>>
    ELSE WalkNode(els[i], k, depth) \o WalkEach(els, i + 1, k, depth)

RECURSIVE WalkNodePost(_, _, _)
RECURSIVE WalkEachPost(_, _, _, _)
WalkNodePost(element, k, depth) ==
  IF depth > RecursionLimit
    THEN <<RecursionError>>
    ELSE WalkEachPost(k[element], 1, k, depth + 1) \o <<element>>

WalkEachPost(els, i, k, depth) ==
  IF i > Len(els)
    THEN <<>>
    ELSE WalkNodePost(els[i], k, depth) \o WalkEachPost(els, i + 1, k, depth)

Raises(out) == \E i \in 1..Len(out) : out[i] = RecursionError

walk_postorder(els, k) ==
  LET out == WalkEachPost(els, 1, k, 1)
  IN IF Raises(out) THEN [out |-> <<>>, raised |-> TRUE]
                    ELSE [out |-> out, raised |-> FALSE]

\* list(diff.walk()): what it yields, or that it ended in a RecursionError (what
\* was yielded before the error is then left out).
walk(els, k) ==
  LET out == WalkEach(els, 1, k, 1)
  IN IF Raises(out) THEN [out |-> <<>>, raised |-> TRUE]
                    ELSE [out |-> out, raised |-> FALSE]

RECURSIVE FindInChildren(_, _, _, _, _, _)
\* Diff._find_in_children over element.children from position i: the child found,
\* None, or RecursionError.
FindInChildren(els, i, identifier, k, idn, depth) ==
  IF depth > RecursionLimit
    THEN RecursionError
    ELSE IF i > Len(els)
           THEN None
           ELSE IF idn[els[i]] = identifier
                  THEN els[i]
                  ELSE LET result == FindInChildren(k[els[i]], 1, identifier, k, idn,
                                                    depth + 1)
                       IN IF result # None
                            THEN result
                            ELSE FindInChildren(els, i + 1, identifier, k, idn, depth)

RECURSIVE FindFrom(_, _, _, _, _)
\* The loop of Diff.find_element_by_identifier over self._elements from position i.
FindFrom(els, i, identifier, k, idn) ==
  IF i > Len(els)
    THEN None
    ELSE IF idn[els[i]] = identifier
           THEN els[i]
           ELSE LET result == FindInChildren(k[els[i]], 1, identifier, k, idn, 1)
                IN IF result # None
                     THEN result
                     ELSE FindFrom(els, i + 1, identifier, k, idn)

find_element_by_identifier(els, identifier, k, idn) ==
  FindFrom(els, 1, identifier, k, idn)

\* DiffStats, FileMetadata (its type left out), and a DiffElement taken by value.
DiffStats(la, lr, fc, hc) ==
  [lines_added |-> la, lines_removed |-> lr, files_changed |-> fc, hunks_count |-> hc]

FileMetadata(mode, is_binary) == [mode |-> mode, is_binary |-> is_binary]

DiffElement(element_type, stats, identifier, change_type, metadata) ==
  [element_type |-> element_type, stats |-> stats, identifier |-> identifier,
   change_type |-> change_type, metadata |-> metadata]

NoMetadata == [mode |-> None, is_binary |-> FALSE]

\* No element: what _create_file_element returns for None.
NoFileElement == DiffElement("None", DiffStats(0, 0, 0, 0), "", "None", NoMetadata)

\* Diff.get_elements_by_type
get_elements_by_type(els, element_type) ==
  SelectSeq(els, LAMBDA elem : elem.element_type = element_type)

RECURSIVE Total(_, _, _)
\* The running totals of get_aggregated_stats from position i on.
Total(els, i, f) ==
  IF i > Len(els) THEN 0 ELSE els[i].stats[f] + Total(els, i + 1, f)

get_aggregated_stats_per_element(els) ==
  LET files == get_elements_by_type(els, "FILE")
  IN DiffStats(Total(files, 1, "lines_added"), Total(files, 1, "lines_removed"),
               Len(files), Total(files, 1, "hunks_count"))

\* Diff.get_aggregated_stats
get_aggregated_stats(els) ==
  LET files == get_elements_by_type(els, "FILE")
      unique_files == {files[i].identifier : i \in 1..Len(files)}
  IN DiffStats(Total(files, 1, "lines_added"), Total(files, 1, "lines_removed"),
               Cardinality(unique_files), Total(files, 1, "hunks_count"))

\* A git.Diff descriptor: its flags, paths, mode and patch bytes; raises says
\* that reading it raises an Exception.
GitDiff(new_file, deleted_file, renamed_file, copied_file, a_path, b_path, b_mode, diff, raises) ==
  [new_file |-> new_file, deleted_file |-> deleted_file,
   renamed_file |-> renamed_file, copied_file |-> copied_file,
   a_path |-> a_path, b_path |-> b_path, b_mode |-> b_mode,
   diff |-> diff, raises |-> raises]

\* The bytes of a patch: '+', '-', the NUL byte and the line feed.
NUL == "NUL"
LF == "LF"
Bytes == {"+", "-", NUL, LF}
BinaryWindow == 1024

StartsWith(s, prefix) ==
  Len(s) >= Len(prefix) /\ SubSeq(s, 1, Len(prefix)) = prefix

RECURSIVE Split(_, _, _)
\* diff_text.split('\n'), cur being the line read so far.
Split(b, i, cur) ==
  IF i > Len(b)
    THEN <<cur>>
    ELSE IF b[i] = LF
           THEN <<cur>> \o Split(b, i + 1, <<>>)
           ELSE Split(b, i + 1, Append(cur, b[i]))

IsAdded(line) == StartsWith(line, <<"+">>) /\ ~StartsWith(line, <<"+", "+", "+">>)

IsRemoved(line) ==
  ~IsAdded(line) /\ StartsWith(line, <<"-">>) /\ ~StartsWith(line, <<"-", "-", "-">>)

\* Diff._calculate_lines_stats
_calculate_lines_stats(diff_item) ==
  IF diff_item.diff # <<>>
    THEN LET lines == Split(diff_item.diff, 1, <<>>)
         IN <<Len(SelectSeq(lines, IsAdded)), Len(SelectSeq(lines, IsRemoved))>>
    ELSE <<0, 0>>

\* Diff._is_binary_file
_is_binary_file(diff_item) ==
  IF diff_item.diff # <<>>
    THEN \E i \in 1..Len(diff_item.diff) : i <= BinaryWindow /\ diff_item.diff[i] = NUL
    ELSE FALSE

\* The change type and the file path chosen by _create_file_element.
ChangeTypeAndPath(diff_item) ==
  IF diff_item.new_file
    THEN <<"added", diff_item.b_path>>
    ELSE IF diff_item.deleted_file
           THEN <<"removed", diff_item.a_path>>
           ELSE IF diff_item.renamed_file
                  THEN <<"renamed", diff_item.a_path \o " -> " \o diff_item.b_path>>
                  ELSE <<"modified", IF diff_item.a_path # None THEN diff_item.a_path
                                                              ELSE diff_item.b_path>>

\* The body of the try block of _create_file_element.
_create_file_element_body(diff_item) ==
  LET change_type == ChangeTypeAndPath(diff_item)[1]
      file_path == ChangeTypeAndPath(diff_item)[2]
      lines_added == _calculate_lines_stats(diff_item)[1]
      lines_removed == _calculate_lines_stats(diff_item)[2]
      file_stats == DiffStats(lines_added, lines_removed, 1,
                              IF lines_added > 0 \/ lines_removed > 0 THEN 1 ELSE 0)
      file_metadata == FileMetadata(IF diff_item.b_mode # 0 THEN ToString(diff_item.b_mode)
                                                             ELSE None,
                                    _is_binary_file(diff_item))
  IN DiffElement("FILE", file_stats, IF file_path # None THEN file_path ELSE "",
                 change_type, file_metadata)

_create_file_element_unguarded(diff_item) ==
  IF diff_item.raises
    THEN [raised |-> TRUE, value |-> NoFileElement]
    ELSE [raised |-> FALSE, value |-> _create_file_element_body(diff_item)]

\* Diff._create_file_element: the element, or None where the body raised.
_create_file_element(diff_item) ==
  IF diff_item.raises
    THEN [raised |-> FALSE, value |-> NoFileElement]
    ELSE [raised |-> FALSE, value |-> _create_file_element_body(diff_item)]

RECURSIVE LoadFrom(_, _)
\* The loop of Diff._load_diff_elements from position i: the elements made, None
\* included, and whether a call raised and ended the loop.
LoadFrom(git_diff, i) ==
  IF i > Len(git_diff)
    THEN [raised |-> FALSE, file_elements |-> <<>>]
    ELSE LET file_element == _create_file_element(git_diff[i])
         IN IF file_element.raised
              THEN [raised |-> TRUE, file_elements |-> <<>>]
              ELSE LET rest == LoadFrom(git_diff, i + 1)
                   IN [raised |-> rest.raised,
                       file_elements |-> <<file_element.value>> \o rest.file_elements]

_load_diff_elements(git_diff) == LoadFrom(git_diff, 1)

\* Diff.to_diff over the descriptors the commit's diff yields.
to_diff(git_diff) ==
  LET loaded == _load_diff_elements(git_diff)
  IN IF loaded.raised
       THEN [raised |-> TRUE, elements |-> <<>>]
       ELSE [raised |-> FALSE,
             elements |-> SelectSeq(loaded.file_elements,
                                    LAMBDA elem : elem # NoFileElement)]

\* ------------------------------------------------------------- str methods
\* The lower-case letter of every upper-case letter.
LowerOf ==
  [A |-> "a", B |-> "b", C |-> "c", D |-> "d", E |-> "e", F |-> "f",
   G |-> "g", H |-> "h", I |-> "i", J |-> "j", K |-> "k", L |-> "l",
   M |-> "m", N |-> "n", O |-> "o", P |-> "p", Q |-> "q", R |-> "r",
   S |-> "s", T |-> "t", U |-> "u", V |-> "v", W |-> "w", X |-> "x",
   Y |-> "y", Z |-> "z"]

Uppercase == DOMAIN LowerOf
Lowercase == {LowerOf[c] : c \in Uppercase}
Digits == {"0", "1", "2", "3", "4", "5", "6", "7", "8", "9"}
Whitespace == {" ", "\n", "\t"}

At(s, i) == SubSeq(s, i, i)

LowerChar(c) == IF c \in Uppercase THEN LowerOf[c] ELSE c

RECURSIVE LowerFrom(_, _)
LowerFrom(s, i) == IF i > Len(s) THEN "" ELSE LowerChar(At(s, i)) \o LowerFrom(s, i + 1)

\* str.lower
Lower(s) == LowerFrom(s, 1)

RECURSIVE LStrip(_)
LStrip(s) == IF s # "" /\ At(s, 1) \in Whitespace THEN LStrip(SubSeq(s, 2, Len(s))) ELSE s

RECURSIVE RStrip(_)
RStrip(s) ==
  IF s # "" /\ At(s, Len(s)) \in Whitespace THEN RStrip(SubSeq(s, 1, Len(s) - 1)) ELSE s

\* str.strip
Strip(s) == RStrip(LStrip(s))

\* str.isspace
IsSpace(s) == Len(s) > 0 /\ \A i \in 1..Len(s) : At(s, i) \in Whitespace

EndsWith(s, suffix) ==
  Len(s) >= Len(suffix) /\ SubSeq(s, Len(s) - Len(suffix) + 1, Len(s)) = suffix

\* sub in s
Contains(s, sub) ==
  \E i \in 1..(Len(s) - Len(sub) + 1) : SubSeq(s, i, i + Len(sub) - 1) = sub

\* ------------------------------------------------- transform/_enum.py
_TEST_BRANCH_NAMES == {"tmp/", "temp/", "wip/", "experiment/", "exp/"}
_FIX_BRANCH_NAMES == {"bugfix", "fix", "hotfix"}
_FEAT_BRANCH_NAMES == {"feature", "feat"}
_DEV_BRANCH_NAMES == {"dev", "develop", "development"}
_MAIN_BRANCH_NAMES == {"main", "master", "prod", "production"}
_LOST_BRANCH_NAMES == {"zombie", "lost", "abandoned", "ghost"}

\* The values of BranchType, in the order of the enum.
BranchType ==
  <<"main", "development", "feature", "fix", "release", "test", "dependabot",
    "renovate", "semaphore", "github_actions", "lost", "other">>

\* BranchType.from_branch_name
from_branch_name(branch_name) ==
  LET name == Lower(Strip(branch_name))
  IN IF name \in _MAIN_BRANCH_NAMES THEN "main"
     ELSE IF name \in _DEV_BRANCH_NAMES THEN "development"
     ELSE IF \E p \in _FEAT_BRANCH_NAMES : StartsWith(name, p) THEN "feature"
     ELSE IF \E p \in _FIX_BRANCH_NAMES : StartsWith(name, p) THEN "fix"
     ELSE IF StartsWith(name, "release") THEN "release"
     ELSE IF \E p \in _TEST_BRANCH_NAMES : StartsWith(name, p) THEN "test"
     ELSE IF StartsWith(name, "dependabot/") THEN "dependabot"
     ELSE IF StartsWith(name, "renovate/") THEN "renovate"
     ELSE IF StartsWith(name, "semaphore/") THEN "semaphore"
     ELSE IF StartsWith(name, "github-actions/") THEN "github_actions"
     ELSE IF \E lost_word \in _LOST_BRANCH_NAMES : Contains(name, lost_word) THEN "lost"
     ELSE "other"

\* re.search of r"actions@github.com", whose dot stands for any character but a
\* line feed.
SearchActionsMail(s) ==
  \E i \in 1..Len(s) :
    /\ i + 17 <= Len(s)
    /\ SubSeq(s, i, i + 13) = "actions@github"
    /\ At(s, i + 14) # "\n"
    /\ SubSeq(s, i + 15, i + 17) = "com"

\* re.search of r"@rultor\.com$": at the end, or before a line feed that ends s.
SearchRultorHost(s) ==
  EndsWith(s, "@rultor.com") \/ EndsWith(s, "@rultor.com\n")

\* BotType._get_patterns: whether one of the patterns of a bot type is found.
Searches(bot_type, s) ==
  CASE bot_type = "dependabot" -> Contains(s, "dependabot") \/ Contains(s, "dependabot@")
    [] bot_type = "renovate" -> Contains(s, "renovate") \/ Contains(s, "renovate-bot@")
    [] bot_type = "github_actions" -> Contains(s, "github-actions") \/ SearchActionsMail(s)
    [] bot_type = "semaphore" -> Contains(s, "semaphore") \/ Contains(s, "semaphoreci@")
    [] bot_type = "pre-commit-ci" -> Contains(s, "pre-commit-ci[bot]")
    [] bot_type = "rultor" -> SearchRultorHost(s) \/ StartsWith(s, "rultor@")

\* The values of BotType, in the order of the patterns.
BotType ==
  <<"dependabot", "renovate", "github_actions", "semaphore", "pre-commit-ci", "rultor">>

\* An author, name and email, either of them None.
Author(name, email) == [name |-> name, email |-> email]

\* BotType.detect: the first bot type with a pattern found in the author's name
\* or email, None without one.
detect(author) ==
  LET name == Lower(IF author.name # None THEN author.name ELSE "")
      email == Lower(IF author.email # None THEN author.email ELSE "")
      found == {i \in 1..Len(BotType) :
                  Searches(BotType[i], name) \/ Searches(BotType[i], email)}
  IN IF found = {} THEN None ELSE BotType[CHOOSE i \in found : \A j \in found : i <= j]

\* --------------------------------------------- transform/assessor.py
_CONVENTIONAL_COMMIT_TYPES ==
  {"feat", "fix", "docs", "style", "refactor", "test", "perf", "build", "ci", "chore",
   "revert"}
_FORBIDDEN_WORDS == {"WIP", "TODO", "FIXME", "TEMP", "DEBUG", "HACK", "XXX"}
DefaultMaxLength == 72

\* [a-zA-Z0-9\-_]
IsScopeChar(c) == c \in Uppercase \cup Lowercase \cup Digits \cup {"-", "_"}

\* \w
IsWordChar(c) == c \in Uppercase \cup Lowercase \cup Digits \cup {"_"}

\* Where s goes on after an optional (scope) that starts at position i.
AfterScope(s, i) ==
  LET closes == {j \in (i + 2)..Len(s) :
                   /\ At(s, j) = ")"
                   /\ \A k \in (i + 1)..(j - 1) : IsScopeChar(At(s, k))}
  IN IF i <= Len(s) /\ At(s, i) = "(" /\ closes # {}
       THEN (CHOOSE j \in closes : TRUE) + 1
       ELSE i

\* self._commit_pattern.match(s): type, optional scope, optional "!", ":", white
\* space, and one character at least that is no line feed, letter case ignored.
MatchesCommitPattern(s) ==
  LET lowered == Lower(s)
  IN \E t \in _CONVENTIONAL_COMMIT_TYPES :
       /\ StartsWith(lowered, t)
       /\ LET i == AfterScope(s, Len(t) + 1)
              j == IF i <= Len(s) /\ At(s, i) = "!" THEN i + 1 ELSE i
          IN /\ j <= Len(s)
             /\ At(s, j) = ":"
             /\ \E k \in (j + 1)..Len(s) :
                  /\ \A w \in (j + 1)..k : At(s, w) \in Whitespace
                  /\ k + 1 <= Len(s)
                  /\ At(s, k + 1) # "\n"

\* self._forbidden_pattern.search(s): a forbidden word between word boundaries,
\* letter case ignored.
SearchesForbidden(s) ==
  LET lowered == Lower(s)
  IN \E w \in {Lower(word) : word \in _FORBIDDEN_WORDS} :
       \E i \in 1..(Len(s) - Len(w) + 1) :
         /\ SubSeq(lowered, i, i + Len(w) - 1) = w
         /\ i = 1 \/ ~IsWordChar(At(s, i - 1))
         /\ i + Len(w) - 1 = Len(s) \/ ~IsWordChar(At(s, i + Len(w)))

\* A commit message: a str, or bytes that decode to text or are no UTF-8.
Message(bytes, valid, text) == [bytes |-> bytes, valid |-> valid, text |-> text]

NoValidation ==
  [message_is_not_empty |-> FALSE, message_is_conventional |-> FALSE,
   message_is_within_length |-> FALSE, message_has_forbidden_words |-> FALSE]

\* MessageQualityAssessor.validate_message: the result, or that decoding the
\* bytes raised UnicodeDecodeError.
validate_message(max_length_commit, msg) ==
  IF msg.bytes /\ ~msg.valid
    THEN [raised |-> TRUE, result |-> NoValidation]
    ELSE LET message == msg.text
             is_not_empty == message # "" /\ ~IsSpace(message)
             is_conventional ==
               IF is_not_empty THEN MatchesCommitPattern(Strip(message)) ELSE FALSE
             is_within_length ==
               IF is_not_empty THEN Len(message) <= max_length_commit ELSE FALSE
             has_forbidden_words ==
               IF is_not_empty THEN SearchesForbidden(message) ELSE FALSE
         IN [raised |-> FALSE,
             result |-> [message_is_not_empty |-> is_not_empty,
                         message_is_conventional |-> is_conventional,
                         message_is_within_length |-> is_within_length,
                         message_has_forbidden_words |-> has_forbidden_words]]

\* ------------------------------------------------- transform/commit.py
\* The git commit as CommitMetadata reads it: what the two git queries list or
\* that they fail, the author and the message.
MetaCommit(branches_found, branch_fails, tags_found, tag_fails, author, message) ==
  [branches_found |-> branches_found, branch_fails |-> branch_fails,
   tags_found |-> tags_found, tag_fails |-> tag_fails,
   author |-> author, message |-> message]

\* CommitMetadata._get_branches: the names found, in the order list(set) gives
\* them, [] where a query raised.
_get_branches(git_commit) ==
  IF git_commit.branch_fails THEN <<>> ELSE git_commit.branches_found

\* CommitMetadata._get_tags
_get_tags(git_commit) ==
  IF git_commit.tag_fails THEN <<>> ELSE git_commit.tags_found

\* A dict without items.
EmptyDict == <<>>

\* CommitMetadata.add_custom_attribute: self.custom_attributes[key] = value
add_custom_attribute(custom_attributes, key, value) ==
  (key :> value) @@ custom_attributes

RECURSIVE BranchTypesFrom(_, _)
BranchTypesFrom(branches, i) ==
  IF i > Len(branches)
    THEN <<>>
    ELSE <<from_branch_name(branches[i])>> \o BranchTypesFrom(branches, i + 1)

\* [BranchType.from_branch_name(b) for b in self.branches]
BranchTypes(branches) == BranchTypesFrom(branches, 1)

RECURSIVE TypeCountsFrom(_, _)
\* The loop over BranchType of _add_branch_types, from the i-th type on.
TypeCountsFrom(branch_types, i) ==
  IF i > Len(BranchType)
    THEN EmptyDict
    ELSE LET count == Cardinality({j \in 1..Len(branch_types) :
                                     branch_types[j] = BranchType[i]})
             rest == TypeCountsFrom(branch_types, i + 1)
         IN IF count > 0
              THEN add_custom_attribute(rest, "branch_count_" \o BranchType[i], count)
              ELSE rest

\* type_counts of _add_branch_types: the branch types that occur, counted.
TypeCounts(branch_types) == TypeCountsFrom(branch_types, 1)

\* CommitMetadata._add_branch_types
_add_branch_types(custom_attributes, branches) ==
  LET branch_types == BranchTypes(branches)
      ca1 == add_custom_attribute(custom_attributes, "branch_types", branch_types)
      ca2 == add_custom_attribute(ca1, "branch_summary", TypeCounts(branch_types))
  IN add_custom_attribute(ca2, "has_lost_branch",
                          \E i \in 1..Len(branch_types) : branch_types[i] = "lost")

is_bot_branch_unless_semaphore(branches) ==
  \E i \in 1..Len(branches) :
    BranchTypes(branches)[i] \in {"dependabot", "renovate", "github_actions"}

\* is_bot_branch of _detect_bot_commit
is_bot_branch(branches) ==
  \E i \in 1..Len(branches) :
    BranchTypes(branches)[i] \in {"dependabot", "renovate", "semaphore", "github_actions"}

_detect_bot_commit_when_bot(custom_attributes, branches, git_commit) ==
  LET bot_type == detect(git_commit.author)
      ca1 == add_custom_attribute(custom_attributes, "is_bot_related",
                                  is_bot_branch(branches) \/ bot_type # None)
  IN IF bot_type # None THEN add_custom_attribute(ca1, "bot_type", bot_type) ELSE ca1

\* CommitMetadata._detect_bot_commit
_detect_bot_commit(custom_attributes, branches, git_commit) ==
  LET bot_type == detect(git_commit.author)
      ca1 == add_custom_attribute(custom_attributes, "is_bot_related",
                                  is_bot_branch(branches) \/ bot_type # None)
  IN add_custom_attribute(ca1, "bot_type", bot_type)

\* CommitMetadata._check_quality_message: the attributes with every item of the
\* validation result written, or that validate_message raised.
_check_quality_message(custom_attributes, git_commit) ==
  LET v == validate_message(DefaultMaxLength, git_commit.message)
      ca1 == add_custom_attribute(custom_attributes, "message_is_not_empty",
                                  v.result.message_is_not_empty)
      ca2 == add_custom_attribute(ca1, "message_is_conventional",
                                  v.result.message_is_conventional)
      ca3 == add_custom_attribute(ca2, "message_is_within_length",
                                  v.result.message_is_within_length)
  IN [raised |-> v.raised,
      custom_attributes |->
        add_custom_attribute(ca3, "message_has_forbidden_words",
                             v.result.message_has_forbidden_words)]

\* CommitMetadata.__init__: the object's fields, or that the constructor raised.
CommitMetadata(git_commit) ==
  LET branches == _get_branches(git_commit)
      tags == _get_tags(git_commit)
      ca1 == _add_branch_types(EmptyDict, branches)
      ca2 == _detect_bot_commit(ca1, branches, git_commit)
      checked == _check_quality_message(ca2, git_commit)
  IN IF checked.raised
       THEN [raised |-> TRUE, branches |-> <<>>, tags |-> <<>>,
             custom_attributes |-> EmptyDict]
       ELSE [raised |-> FALSE, branches |-> branches, tags |-> tags,
             custom_attributes |-> checked.custom_attributes]

\* ------------------------------------------------- transform/_enum.py, FileType
_CONFIG_EXTS ==
  {".yaml", ".ini", ".json", ".toml", ".yml", ".cfg", ".conf", ".properties",
   ".gitignore", ".env", ".dockerignore"}
_TEST_PATHS == {"/test/", "/tests/"}
_TEST_PREFIXES == {"tests", "test_"}
_TEST_SUFFIXES == {"_test.py", ".spec.ts", "-test.js", ".test.js", "_test.rb"}
_DOC_PATHS == {"/docs/", "/doc/", "/documentation/"}
_DOC_PREFIXES == {"docs/", "documentation/"}
_DOC_SUFFIXES == {".md", ".rst", ".txt"}
_DOC_FILES == {"license", "readme", "changelog", "contributing"}
_BUILD_PATHS == {"/build/", "/ci/", "/.github/"}
_BUILD_FILES == {"makefile", "dockerfile", "docker", ".sh", ".bat", ".ps1"}
_SOURCE_CODE_MIMES ==
  {"text/x-python", "text/javascript", "text/x-java-source", "text/x-c", "text/x-c++",
   "text/x-go", "text/x-php", "text/x-ruby", "text/html", "text/css"}
_CONFIG_MIME_KEYWORDS == {"json", "xml", "yaml", "ini"}
_ARCHIVE_MIME_KEYWORDS == {"zip", "tar", "gzip", "rar", "x-bzip2"}
_BUILD_MIME_KEYWORDS ==
  {"application/x-sh", "application/x-executable", "application/octet-stream"}

\* The values of FileType.
FileType ==
  {"source_code", "test", "config", "documentation", "build", "data", "image", "audio",
   "video", "archive", "unknown"}

_is_test_file(path) ==
  \/ \E p \in _TEST_PATHS : Contains(path, p)
  \/ \E prefix \in _TEST_PREFIXES : StartsWith(path, prefix)
  \/ \E suffix \in _TEST_SUFFIXES : EndsWith(path, suffix)

_is_documentation(path) ==
  \/ \E p \in _DOC_PATHS : Contains(path, p)
  \/ \E prefix \in _DOC_PREFIXES : StartsWith(path, prefix)
  \/ \E suffix \in _DOC_SUFFIXES : EndsWith(path, suffix)
  \/ \E f \in _DOC_FILES : EndsWith(path, f)

_is_build_file(path) ==
  \/ \E p \in _BUILD_PATHS : Contains(path, p)
  \/ \E f \in _BUILD_FILES : Contains(path, f)

_is_config_file(path) == \E ext \in _CONFIG_EXTS : EndsWith(path, ext)

_is_data_file(path) == Contains(path, "/data/") \/ StartsWith(path, "data/")

_from_mime_type(mime_type, path) ==
  IF StartsWith(mime_type, "text/")
    THEN IF mime_type \in _SOURCE_CODE_MIMES THEN "source_code"
         ELSE IF \E ext \in _CONFIG_MIME_KEYWORDS : Contains(mime_type, ext) THEN "config"
         ELSE "data"
  ELSE IF StartsWith(mime_type, "application/")
    THEN IF \E ext \in _CONFIG_MIME_KEYWORDS : Contains(mime_type, ext) THEN "config"
         ELSE IF \E ext \in _ARCHIVE_MIME_KEYWORDS : Contains(mime_type, ext) THEN "archive"
         ELSE IF mime_type \in _BUILD_MIME_KEYWORDS THEN "build"
         ELSE "source_code"
  ELSE IF StartsWith(mime_type, "image/") THEN "image"
  ELSE IF StartsWith(mime_type, "audio/") THEN "audio"
  ELSE IF StartsWith(mime_type, "video/") THEN "video"
  ELSE "unknown"

\* The last position of character c in s, 0 without one.
RECURSIVE RFind(_, _, _)
RFind(s, c, i) == IF i = 0 \/ At(s, i) = c THEN i ELSE RFind(s, c, i - 1)

\* posixpath.splitext: the extension starts at the last dot of the last
\* component, unless only dots come before it there.
splitext(p) ==
  LET sep == RFind(p, "/", Len(p))
      dot == RFind(p, ".", Len(p))
  IN IF dot > sep /\ \E i \in (sep + 1)..(dot - 1) : At(p, i) # "."
       THEN [root |-> SubSeq(p, 1, dot - 1), ext |-> SubSeq(p, dot, Len(p))]
       ELSE [root |-> p, ext |-> ""]

\* mimetypes: the suffixes that stand for two, and those of an encoding.
suffix_map == (".tgz" :> ".tar.gz") @@ (".svgz" :> ".svg.gz") @@ (".tbz2" :> ".tar.bz2")
encodings_map == {".gz", ".Z", ".bz2", ".xz", ".br"}

\* A part of the table of types that the mimetypes module is built with, and
\* the entries a system's mime.types file puts in their place.
StdTypes ==
  (".py" :> "text/x-python") @@ (".html" :> "text/html") @@ (".csv" :> "text/csv")
    @@ (".c" :> "text/plain") @@ (".xml" :> "text/xml") @@ (".pdf" :> "application/pdf")
    @@ (".zip" :> "application/zip") @@ (".tar" :> "application/x-tar")
    @@ (".bin" :> "application/octet-stream") @@ (".png" :> "image/png")
    @@ (".mp3" :> "audio/mpeg") @@ (".mp4" :> "video/mp4")
SystemTypes ==
  (".xml" :> "application/xml") @@ (".c" :> "text/x-csrc")
    @@ (".ttf" :> "font/ttf") @@ StdTypes

\* mimetypes.guess_type(url)[0] of a path with no URL scheme, under a table of
\* types: None for a suffix the table does not know.
guess_type(url, types_map) ==
  LET first == splitext(url)
      long == IF Lower(first.ext) \in DOMAIN suffix_map
                THEN splitext(first.root \o suffix_map[Lower(first.ext)])
                ELSE first
      plain == IF long.ext \in encodings_map THEN splitext(long.root) ELSE long
      ext == plain.ext
  IN IF ext \in DOMAIN types_map THEN types_map[ext]
     ELSE IF Lower(ext) \in DOMAIN types_map THEN types_map[Lower(ext)]
     ELSE None

\* FileType.from_path_to_content with the rule of documentation consulted
\* before the rule of tests.
from_path_to_content_docs_first(file_path, types_map) ==
  IF file_path = None \/ file_path = ""
    THEN "unknown"
    ELSE LET path_lower == Lower(file_path)
             mime_type == guess_type(file_path, types_map)
         IN IF _is_documentation(path_lower) THEN "documentation"
            ELSE IF _is_test_file(path_lower) THEN "test"
            ELSE IF _is_build_file(path_lower) THEN "build"
            ELSE IF _is_config_file(path_lower) THEN "config"
            ELSE IF _is_data_file(path_lower) THEN "data"
            ELSE IF mime_type # None /\ mime_type # ""
              THEN _from_mime_type(mime_type, path_lower)
            ELSE "unknown"

\* FileType.from_path_to_content, in an environment whose table of types is
\* types_map.
from_path_to_content(file_path, types_map) ==
  IF file_path = None \/ file_path = ""
    THEN "unknown"
    ELSE LET path_lower == Lower(file_path)
             mime_type == guess_type(file_path, types_map)
         IN IF _is_test_file(path_lower) THEN "test"
            ELSE IF _is_documentation(path_lower) THEN "documentation"
            ELSE IF _is_build_file(path_lower) THEN "build"
            ELSE IF _is_config_file(path_lower) THEN "config"
            ELSE IF _is_data_file(path_lower) THEN "data"
            ELSE IF mime_type # None /\ mime_type # ""
              THEN _from_mime_type(mime_type, path_lower)
            ELSE "unknown"

\* ------------------------------------------------- transform/_enum.py, PRState
\* A value of a JSON payload: null, a boolean or a string.
JNull == [t |-> "null", b |-> FALSE, s |-> ""]
JBool(b) == [t |-> "bool", b |-> b, s |-> ""]
JStr(s) == [t |-> "str", b |-> FALSE, s |-> s]

\* The truth value Python gives a payload value.
Truthy(v) == IF v.t = "bool" THEN v.b ELSE IF v.t = "str" THEN v.s # "" ELSE FALSE

\* dict.get(key, default)
DictGet(d, key, default) == IF key \in DOMAIN d THEN d[key] ELSE default

\* The values of PRState.
PRState == {"open", "closed", "merged", "draft"}

\* PRState.from_pr_data with the merge timestamp read before the draft flag.
from_pr_data_merged_first(pr_data) ==
  IF DictGet(pr_data, "merged_at", JNull) # JNull THEN "merged"
  ELSE IF Truthy(DictGet(pr_data, "draft", JBool(FALSE))) THEN "draft"
  ELSE IF DictGet(pr_data, "state", JNull) = JStr("open") THEN "open"
  ELSE "closed"

\* PRState.from_pr_data
from_pr_data(pr_data) ==
  IF Truthy(DictGet(pr_data, "draft", JBool(FALSE))) THEN "draft"
  ELSE IF DictGet(pr_data, "merged_at", JNull) # JNull THEN "merged"
  ELSE IF DictGet(pr_data, "state", JNull) = JStr("open") THEN "open"
  ELSE "closed"

\* ----------------------------------- transform/commit.py, CommitElement identity
\* A Python value that may be compared with a CommitElement: a CommitElement of
\* a commit and an optional diff, or a value of another class that carries the
\* same text.
Value(cls, hexsha, message, diff) ==
  [cls |-> cls, hexsha |-> hexsha, message |-> message, diff |-> diff]

\* isinstance(value, CommitElement)
IsCommitElement(value) == value.cls = "CommitElement"

\* CommitElement.__hash__: the hash of commit.hexsha, under the hash function of
\* str of the running process.
__hash__(self, hash) == hash[self.hexsha]

\* The __eq__ that dataclass generates: same class and every field equal.
__eq__by_fields(self, value) ==
  IF value.cls = self.cls
    THEN self.hexsha = value.hexsha /\ self.message = value.message /\ self.diff = value.diff
    ELSE FALSE

\* CommitElement.__eq__
__eq__(self, value) ==
  IF IsCommitElement(value) THEN self.hexsha = value.hexsha ELSE FALSE

\* ----------------------------- extract/client.py, GithubGraphQLClient paging
\* data["repository"][connection] of a response: the nodes of the page and its
\* pageInfo.
Page(nodes, hasNextPage, endCursor) ==
  [nodes |-> nodes, hasNextPage |-> hasNextPage, endCursor |-> endCursor]

\* A generator of _paginate_repository_connection just created: cursor = None,
\* no query sent and nothing yielded yet.
NewPager ==
  [pc |-> "query", cursor |-> None, i |-> 1, sent |-> <<>>, pages |-> <<>>, out |-> <<>>]

\* The end of a turn of the loop with the cursor left as it was.
AfterPage_same_cursor(g, page) ==
  IF ~page.hasNextPage THEN [g EXCEPT !.pc = "done"] ELSE [g EXCEPT !.pc = "query"]

\* The end of a turn of the loop, after the nodes of the page: break when
\* hasNextPage is false, else take endCursor for the next turn.
AfterPage(g, page) ==
  IF ~page.hasNextPage
    THEN [g EXCEPT !.pc = "done"]
    ELSE [g EXCEPT !.pc = "query", !.cursor = page.endCursor]

\* variables["cursor"] = cursor; data = self._query(query, variables), which
\* raises or returns the page that the server answers with.
SendQuery(g, answer) ==
  IF answer = Page(<<>>, FALSE, "raise")
    THEN [g EXCEPT !.pc = "raised", !.sent = Append(@, g.cursor)]
    ELSE [g EXCEPT !.pc = "yield", !.i = 1, !.sent = Append(@, g.cursor),
                   !.pages = Append(@, answer)]

\* yield from conn_data["nodes"]: the next node of the page.
YieldNode(g) == [g EXCEPT !.out = Append(@, Last(g.pages).nodes[g.i]), !.i = @ + 1]

\* ------------------------------------------------- transform/collections.py
\* BaseCollection.__init__, with the raw data of every fetch the collection
\* asked its client for so far.
NewCollection == [_elements |-> <<>>, _fetched |-> FALSE, fetches |-> <<>>, raised |-> FALSE]

\* self._element_class.from_dict(raw)
from_dict(raw) == [from_raw |-> raw]

RECURSIVE AppendConverted(_, _, _, _)
\* for raw in raw_data: self._elements.append(from_dict(raw)), from record i up
\* to the record before stop.
AppendConverted(els, raw_data, i, stop) ==
  IF i >= stop \/ i > Len(raw_data)
    THEN els
    ELSE AppendConverted(Append(els, from_dict(raw_data[i])), raw_data, i + 1, stop)

\* BaseCollection._fetch_elements, where the client's iterator would yield
\* raw_data and the loop raises at record fails, in the iterator or in
\* from_dict: never when fails is 0, after the last record when fails is
\* Len(raw_data) + 1.
_fetch_elements(c, raw_data, fails) ==
  IF ~c._fetched
    THEN IF fails = 0
           THEN [_elements |-> AppendConverted(c._elements, raw_data, 1, Len(raw_data) + 1),
                 _fetched |-> TRUE,
                 fetches |-> Append(c.fetches, raw_data),
                 raised |-> FALSE]
           ELSE [_elements |-> AppendConverted(c._elements, raw_data, 1, fails),
                 _fetched |-> FALSE,
                 fetches |-> Append(c.fetches, raw_data),
                 raised |-> TRUE]
    ELSE [c EXCEPT !.raised = FALSE]

\* ------------------------------------------------------------ the machine
\* call: the arguments of the last extract_commits_batch call, what the
\* environment did to it, and whether it repeated the arguments of the call
\* before it, which had returned from list_commits.
NoCall == [op |-> "none", batch_size |-> 0, branch |-> KnownBranch, last_sha |-> None,
           fault |-> "none", again |-> FALSE]
NoListed == [raised |-> NoExc, commits |-> <<>>, new_last_sha |-> None]
NoRet == [batch |-> NewBatch(SourceInfo(RepoUrl, KnownBranch)), cursor |-> None,
          trail |-> <<>>, propagated |-> NoExc]

NoGraph == [x \in {} |-> x]
NotAsked == [asked |-> NoElement, out |-> <<>>, done |-> FALSE]

NoQuery == [op |-> "none", arg |-> None, out |-> <<>>, raised |-> FALSE]

InitTreeIdle ==
  /\ roots = <<>>
  /\ kids = NoKids
  /\ parent = NoParents
  /\ ident = [n \in Nodes |-> "x"]
  /\ query = NoQuery

NoStats == [lines_added |-> -1, lines_removed |-> -1, files_changed |-> -1,
            hunks_count |-> -1]

InitFlatIdle == flat = <<>> /\ agg = NoStats

NoItem == GitDiff(FALSE, FALSE, FALSE, FALSE, None, None, 0, <<>>, FALSE)

NotMade == [done |-> FALSE, raised |-> FALSE, value |-> NoFileElement]

NotBuilt == [done |-> FALSE, raised |-> FALSE, elements |-> <<>>]

InitFileIdle == item = NoItem /\ made = NotMade /\ items = <<>> /\ built = NotBuilt

NoCommit == MetaCommit(<<>>, FALSE, <<>>, FALSE, Author(None, None), Message(FALSE, TRUE, ""))

NotConstructed ==
  [done |-> FALSE, raised |-> FALSE, branches |-> <<>>, tags |-> <<>>,
   custom_attributes |-> EmptyDict]

InitMetaIdle == commit = NoCommit /\ meta = NotConstructed

NoAssessor == [max_length_commit |-> DefaultMaxLength, message |-> Message(FALSE, TRUE, "")]

NotValidated == [done |-> FALSE, raised |-> FALSE, result |-> NoValidation]

InitAssessIdle == assessor = NoAssessor /\ validation = NotValidated

NotClassified == [done |-> FALSE, value |-> "unknown"]

InitEnumIdle == given_path = None /\ known_types = StdTypes /\ file_type = NotClassified

InitPrIdle == payload = <<>> /\ pr_state = NotClassified

NotCompared == [done |-> FALSE, eq |-> FALSE, hash_lhs |-> -1, hash_rhs |-> -1]

NoValue == Value("NoneType", None, None, None)

InitEqIdle == lhs = NoValue /\ rhs = NoValue /\ str_hash = [s \in Shas |-> 0] /\ compared = NotCompared

NotResumed == [cursor |-> None, got |-> <<>>, sizes |-> <<>>, calls |-> 0]

InitResumeIdle == resumed = NotResumed

InitNestIdle == etype = [n \in Nodes |-> "FILE"]

InitPagerIdle == pager = NewPager

InitCollIdle == coll = NewCollection /\ fetch_calls = 0

InitLaterIdle ==
  /\ InitEnumIdle
  /\ InitPrIdle
  /\ InitEqIdle
  /\ InitResumeIdle
  /\ InitNestIdle
  /\ InitPagerIdle
  /\ InitCollIdle

InitEarlierIdle ==
  /\ InitTreeIdle /\ InitFlatIdle /\ InitFileIdle /\ InitMetaIdle /\ InitAssessIdle

InitTransformIdle == InitEarlierIdle /\ InitLaterIdle

InitBatchIdle == obj = NewBatch(SourceInfo(RepoUrl, KnownBranch))

InitGraphIdle ==
  /\ elements = <<>>
  /\ index = NoGraph
  /\ yielded = NotAsked

InitExtractIdle ==
  /\ remote = <<>>
  /\ disk = NoDir
  /\ client = NewClient
  /\ call = NoCall
  /\ listed = NoListed
  /\ ret = NoRet

\* A client and repository just constructed, over any remote history and any
\* state of the local directory: absent, or a clone that may be behind.
Init ==
  /\ remote \in InjSeqs(Shas, MaxHist)
  /\ disk \in {NoDir} \cup {Dir(h, d) : h \in Suffixes(remote), d \in BOOLEAN}
  /\ client = NewClient
  /\ call = NoCall
  /\ listed = NoListed
  /\ ret = NoRet
  /\ InitBatchIdle
  /\ InitGraphIdle
  /\ InitTransformIdle

BatchSizes == 0..MaxBatch
Cursors == Shas \cup {None}

Listed(lc) == [raised |-> lc.raised, commits |-> lc.commits,
               new_last_sha |-> lc.new_last_sha]

\* The operations of a call that the environment can make raise, as _clone and
\* list_commits reach them from this client and directory.
Reachable(cl, dk) ==
  {"none", "iter"} \cup
  (IF cl.cloned THEN {}
   ELSE IF dk.exists THEN {"open"} \cup (IF dk.dirty THEN {} ELSE {"pull"})
   ELSE {"clone"})

ExtractCommitsBatch ==
  \E n \in BatchSizes, br \in BranchArgs, c \in Cursors, f \in Reachable(client, disk) :
    LET lc == list_commits(client, disk, remote, n, br, c, f)
    IN /\ client' = lc.client
       /\ disk' = lc.disk
       /\ call' = [op |-> "extract", batch_size |-> n, branch |-> br, last_sha |-> c,
                   fault |-> f,
                   again |-> /\ call.op = "extract"
                             /\ listed.raised = NoExc
                             /\ call.batch_size = n
                             /\ call.branch = br
                             /\ call.last_sha = c]
       /\ listed' = Listed(lc)
       /\ ret' = extract_commits_batch(RepoUrl, lc, n, br, c)
       /\ UNCHANGED <<remote, obj, elements, index, yielded, transformVars>>

\* Somebody pushes a commit to the branch on the remote: it becomes the newest.
RemotePush ==
  /\ Len(remote) < MaxHist
  /\ \E s \in Shas :
       /\ \A i \in 1..Len(remote) : remote[i] # s
       /\ remote' = <<s>> \o remote
  /\ UNCHANGED <<disk, client, call, listed, ret, obj, elements, index, yielded, transformVars>>

Next == ExtractCommitsBatch \/ RemotePush

Spec == Init /\ [][Next]_vars

\* ----------------------------------------- a RawCommitsBatch called directly
Messages == {"pull failed", "bad revision"}

SeqsUpTo(S, n) == UNION {[1..k -> S] : k \in 0..n}

InitBatch ==
  /\ InitExtractIdle
  /\ InitGraphIdle
  /\ InitBatchIdle
  /\ InitTransformIdle

BatchAddCommits ==
  /\ \E h \in SeqsUpTo(Shas, MaxRaw) :
       /\ Len(h) > 0
       /\ Len(obj.raw_commits) + Len(h) <= MaxRaw
       /\ obj' = add_commits(obj, Commits(h))
  /\ UNCHANGED <<extractVars, graphVars, transformVars>>

BatchValidate ==
  /\ \E expected \in BatchSizes, actual \in BatchSizes :
       obj' = validate(obj, expected, actual)
  /\ UNCHANGED <<extractVars, graphVars, transformVars>>

BatchMarkFailed ==
  /\ \E m \in Messages : obj' = mark_failed(obj, m)
  /\ UNCHANGED <<extractVars, graphVars, transformVars>>

NextBatch == BatchAddCommits \/ BatchValidate \/ BatchMarkFailed

SpecBatch == InitBatch /\ [][NextBatch]_vars

\* ------------------------------------------- a Diff and its DiffElements
RECURSIVE SumLen(_, _)
SumLen(f, S) ==
  IF S = {} THEN 0
  ELSE LET n == CHOOSE m \in S : TRUE IN Len(f[n]) + SumLen(f, S \ {n})

\* The add_element and add_children calls made so far.
Adds == Len(roots) + SumLen(kids, Nodes)

Placed(n) ==
  \/ \E i \in 1..Len(roots) : roots[i] = n
  \/ \E p \in Nodes : \E i \in 1..Len(kids[p]) : kids[p][i] = n

Range(s) == {s[i] : i \in 1..Len(s)}

RECURSIVE Grow(_)
\* S and every element below an element of S.
Grow(S) ==
  LET T == S \cup UNION {Range(kids[m]) : m \in S}
  IN IF T = S THEN S ELSE Grow(T)

InitTree ==
  /\ InitExtractIdle
  /\ InitBatchIdle
  /\ InitGraphIdle
  /\ InitTreeIdle
  /\ InitFlatIdle
  /\ InitFileIdle
  /\ InitMetaIdle
  /\ InitAssessIdle
  /\ InitLaterIdle

\* diff.add_element(n), for any element, added before or not.
TreeAddElement ==
  /\ Adds < MaxAdds
  /\ \E n \in Nodes : roots' = add_element(roots, n)
  /\ query' = NoQuery
  /\ UNCHANGED <<notTreeVars, kids, parent, ident>>

\* p.add_children(c), for any two elements, the same one twice included.
TreeAddChildren ==
  /\ Adds < MaxAdds
  /\ \E p \in Nodes, c \in Nodes :
       /\ parent' = add_children_parent(parent, p, c)
       /\ kids' = add_children_kids(kids, p, c)
  /\ query' = NoQuery
  /\ UNCHANGED <<notTreeVars, roots, ident>>

\* list(diff.walk())
TreeWalk ==
  /\ LET w == walk(roots, kids)
     IN query' = [op |-> "walk", arg |-> None, out |-> w.out, raised |-> w.raised]
  /\ UNCHANGED <<notTreeVars, roots, kids, parent, ident>>

NextTree == TreeAddElement \/ TreeAddChildren \/ TreeWalk

SpecTree == InitTree /\ [][NextTree]_vars

\* The same Diff built the way to_diff and a tree builder would: every element is
\* placed once, as a root or as the child of another element.
InitForest ==
  /\ InitExtractIdle
  /\ InitBatchIdle
  /\ InitGraphIdle
  /\ roots = <<>>
  /\ kids = NoKids
  /\ parent = NoParents
  /\ ident \in [Nodes -> Identifiers]
  /\ query = NoQuery
  /\ InitFlatIdle
  /\ InitFileIdle
  /\ InitMetaIdle
  /\ InitAssessIdle
  /\ InitLaterIdle

ForestAddElement ==
  /\ \E n \in Nodes :
       /\ ~Placed(n)
       /\ roots' = add_element(roots, n)
  /\ query' = NoQuery
  /\ UNCHANGED <<notTreeVars, kids, parent, ident>>

ForestAddChildren ==
  /\ \E p \in Nodes, c \in Nodes :
       /\ p # c
       /\ ~Placed(c)
       /\ p \notin Grow({c})
       /\ parent' = add_children_parent(parent, p, c)
       /\ kids' = add_children_kids(kids, p, c)
  /\ query' = NoQuery
  /\ UNCHANGED <<notTreeVars, roots, ident>>

\* diff.find_element_by_identifier(id)
ForestFind ==
  /\ \E id \in Identifiers \cup {"z"} :
       LET r == find_element_by_identifier(roots, id, kids, ident)
       IN query' = [op |-> "find", arg |-> id,
                    out |-> IF r \in Nodes THEN <<r>> ELSE <<>>,
                    raised |-> r = RecursionError]
  /\ UNCHANGED <<notTreeVars, roots, kids, parent, ident>>

NextForest == ForestAddElement \/ ForestAddChildren \/ ForestFind

SpecForest == InitForest /\ [][NextForest]_vars

\* ------------------------------------------- a Diff of root elements only
StatsSamples == {DiffStats(0, 0, 0, 0), DiffStats(1, 0, 1, 1), DiffStats(2, 1, 1, 1)}

FlatElements ==
  {DiffElement(t, st, id, "modified", NoMetadata) :
     t \in {"FILE", "HUNK"}, id \in Identifiers, st \in StatsSamples}

InitFlat ==
  /\ InitExtractIdle
  /\ InitBatchIdle
  /\ InitGraphIdle
  /\ InitTreeIdle
  /\ InitFlatIdle
  /\ InitFileIdle
  /\ InitMetaIdle
  /\ InitAssessIdle
  /\ InitLaterIdle

\* diff.add_element(DiffElement(...)) of an element without children
FlatAddElement ==
  /\ Len(flat) < MaxRoots
  /\ \E el \in FlatElements : flat' = add_element(flat, el)
  /\ agg' = NoStats
  /\ UNCHANGED <<notFlatVars>>

\* diff.get_aggregated_stats()
FlatStats ==
  /\ agg' = get_aggregated_stats(flat)
  /\ UNCHANGED <<notFlatVars, flat>>

NextFlat == FlatAddElement \/ FlatStats

SpecFlat == InitFlat /\ [][NextFlat]_vars

\* ------------------------------------------------ one file descriptor
Paths == {None, "a.py"}
Modes == {0, 33188}

Patches == UNION {[1..k -> Bytes] : k \in 0..MaxBytes}

\* Every combination of flags, paths and mode without a patch, and every patch
\* of a modified file.
Descriptors ==
  {GitDiff(nf, df, rf, cf, a, b, m, <<>>, r) :
     nf \in BOOLEAN, df \in BOOLEAN, rf \in BOOLEAN, cf \in BOOLEAN,
     a \in Paths, b \in {None, "b.py"}, m \in Modes, r \in BOOLEAN}
    \cup {GitDiff(FALSE, FALSE, FALSE, FALSE, "a.py", "a.py", 33188, d, FALSE) : d \in Patches}

InitFile ==
  /\ InitExtractIdle
  /\ InitBatchIdle
  /\ InitGraphIdle
  /\ InitTreeIdle
  /\ InitFlatIdle
  /\ item \in Descriptors
  /\ made = NotMade
  /\ items = <<>>
  /\ built = NotBuilt
  /\ InitMetaIdle
  /\ InitAssessIdle
  /\ InitLaterIdle

\* diff._create_file_element(item)
CreateFileElement ==
  /\ ~made.done
  /\ LET r == _create_file_element(item)
     IN made' = [done |-> TRUE, raised |-> r.raised, value |-> r.value]
  /\ UNCHANGED <<notFileVars, item, items, built>>

NextFile == CreateFileElement

SpecFile == InitFile /\ [][NextFile]_vars

\* ------------------------------------------- the descriptors of one commit
SampleDescriptors ==
  {GitDiff(nf, df, FALSE, FALSE, "a.py", "b.py", 33188, d, r) :
     nf \in BOOLEAN, df \in BOOLEAN, d \in {<<>>, <<"+">>}, r \in BOOLEAN}

InitToDiff ==
  /\ InitExtractIdle
  /\ InitBatchIdle
  /\ InitGraphIdle
  /\ InitTreeIdle
  /\ InitFlatIdle
  /\ item = NoItem
  /\ made = NotMade
  /\ items \in SeqsUpTo(SampleDescriptors, MaxItems)
  /\ built = NotBuilt
  /\ InitMetaIdle
  /\ InitAssessIdle
  /\ InitLaterIdle

\* Diff.to_diff(git_commit)
ToDiff ==
  /\ ~built.done
  /\ LET d == to_diff(items)
     IN built' = [done |-> TRUE, raised |-> d.raised, elements |-> d.elements]
  /\ UNCHANGED <<notFileVars, item, made, items>>

NextToDiff == ToDiff

SpecToDiff == InitToDiff /\ [][NextToDiff]_vars

\* ------------------------------------------------------ a CommitMetadata
BranchNames ==
  {"main", " Dev", "feature/dependabot", "dependabot/pip", "renovate/lock",
   "semaphore/ci", "GitHub-Actions/up", "ghost-town", "topic"}

Authors ==
  {Author(None, None),
   Author("Alice", "alice@example.org"),
   Author("Dependabot[bot]", "support@github.com"),
   Author("Release", "rultor@example.org")}

MetaMessages ==
  {Message(FALSE, TRUE, ""), Message(FALSE, TRUE, "fix: typo"), Message(TRUE, FALSE, "")}

InitMeta ==
  /\ InitExtractIdle
  /\ InitBatchIdle
  /\ InitGraphIdle
  /\ InitTreeIdle
  /\ InitFlatIdle
  /\ InitFileIdle
  /\ InitAssessIdle
  /\ InitLaterIdle
  /\ commit \in {MetaCommit(bs, bf, <<"v1.0">>, tf, a, m) :
                   bs \in InjSeqs(BranchNames, MaxBranches), bf \in BOOLEAN,
                   tf \in BOOLEAN, a \in Authors, m \in MetaMessages}
  /\ meta = NotConstructed

\* CommitMetadata(git_commit)
ConstructMetadata ==
  /\ ~meta.done
  /\ LET m == CommitMetadata(commit)
     IN meta' = [done |-> TRUE, raised |-> m.raised, branches |-> m.branches,
                 tags |-> m.tags, custom_attributes |-> m.custom_attributes]
  /\ UNCHANGED <<notMetaVars, commit>>

NextMeta == ConstructMetadata

SpecMeta == InitMeta /\ [][NextMeta]_vars

\* ------------------------------------------------ a MessageQualityAssessor
\* Message texts: a head, then a scope, "!", ":", white space and a body, each
\* of them there or not.
Heads == {"", " ", "fix", "Feat", "WIP", "note"}
Scopes == {"", "(core)", "(a b)"}
Gaps == {"", " ", "\n"}
Bodies ==
  {"", "x", "todo later",
   "a subject line that is longer than seventy-two characters, whatever it says"}

Texts ==
  {h \o s \o b \o c \o g \o t :
     h \in Heads, s \in Scopes, b \in {"", "!"}, c \in {"", ":"}, g \in Gaps, t \in Bodies}

AssessMessages ==
  {Message(FALSE, TRUE, t) : t \in Texts}
    \cup {Message(TRUE, TRUE, "fix: x"), Message(TRUE, FALSE, "")}

MaxLengths == {DefaultMaxLength, Len("fix: x")}

InitAssess ==
  /\ InitExtractIdle
  /\ InitBatchIdle
  /\ InitGraphIdle
  /\ InitTreeIdle
  /\ InitFlatIdle
  /\ InitFileIdle
  /\ InitMetaIdle
  /\ InitLaterIdle
  /\ assessor \in [max_length_commit : MaxLengths, message : AssessMessages]
  /\ validation = NotValidated

\* MessageQualityAssessor(max_length_commit).validate_message(message)
ValidateMessage ==
  /\ ~validation.done
  /\ LET v == validate_message(assessor.max_length_commit, assessor.message)
     IN validation' = [done |-> TRUE, raised |-> v.raised, result |-> v.result]
  /\ UNCHANGED <<notAssessVars, assessor>>

NextAssess == ValidateMessage

SpecAssess == InitAssess /\ [][NextAssess]_vars

\* ------------------------------------------------ a FileType classification
\* Paths of a directory, a file name and a suffix, and the missing and the
\* empty path.
PathDirs ==
  {"", "src/", "tests/", "docs/", "Docs/", "lib/test/", "pkg/data/", "data/",
   "x/build/", ".github/"}
PathStems == {"main", "test_helpers", "README", "Makefile", "util_test"}
PathExts ==
  {"", ".py", ".PY", ".md", ".json", ".png", ".csv", ".zip", ".bin", ".xml", ".mp3",
   ".mp4", ".pdf", ".c", ".tgz", ".py.gz", ".weird"}
FilePaths == {None, ""} \cup {d \o s \o e : d \in PathDirs, s \in PathStems, e \in PathExts}

InitEnum ==
  /\ InitExtractIdle
  /\ InitBatchIdle
  /\ InitGraphIdle
  /\ InitEarlierIdle
  /\ InitCollIdle
  /\ InitPagerIdle
  /\ InitNestIdle
  /\ InitResumeIdle
  /\ InitEqIdle
  /\ InitPrIdle
  /\ given_path \in FilePaths
  /\ known_types \in {StdTypes, SystemTypes}
  /\ file_type = NotClassified

\* FileType.from_path_to_content(path)
Classify ==
  /\ ~file_type.done
  /\ file_type' = [done |-> TRUE, value |-> from_path_to_content(given_path, known_types)]
  /\ UNCHANGED <<notEnumVars, given_path, known_types>>

NextEnum == Classify

SpecEnum == InitEnum /\ [][NextEnum]_vars

\* ------------------------------------------------ a PRState classification
\* Payloads with any of the three keys missing, null or set.
Missing == "missing"
DraftValues == {JNull, JBool(TRUE), JBool(FALSE)}
MergedAtValues == {JNull, JStr("2024-05-01T10:00:00Z"), JStr(""), JBool(FALSE)}
StateValues == {JNull, JStr("open"), JStr("closed"), JStr("OPEN"), JStr("")}

\* The dict of the keys that are set.
PayloadOf(draft, merged_at, state) ==
  LET set == [draft |-> draft, merged_at |-> merged_at, state |-> state]
      keys == {k \in DOMAIN set : set[k].t # Missing}
  IN [k \in keys |-> set[k]]

Payloads ==
  LET absent == [t |-> Missing, b |-> FALSE, s |-> ""]
  IN {PayloadOf(d, m, s) : d \in DraftValues \cup {absent},
                           m \in MergedAtValues \cup {absent},
                           s \in StateValues \cup {absent}}

InitPr ==
  /\ InitExtractIdle
  /\ InitBatchIdle
  /\ InitGraphIdle
  /\ InitEarlierIdle
  /\ InitCollIdle
  /\ InitPagerIdle
  /\ InitNestIdle
  /\ InitResumeIdle
  /\ InitEqIdle
  /\ InitEnumIdle
  /\ payload \in Payloads
  /\ pr_state = NotClassified

\* PRState.from_pr_data(payload)
ClassifyPr ==
  /\ ~pr_state.done
  /\ pr_state' = [done |-> TRUE, value |-> from_pr_data(payload)]
  /\ UNCHANGED <<notPrVars, payload>>

NextPr == ClassifyPr

SpecPr == InitPr /\ [][NextPr]_vars

\* ------------------------------------------- two values compared for equality
EqMessages == {"fix: a", "feat: b"}
EqDiffs == {None, "diff1", "diff2"}
CommitElements ==
  {Value("CommitElement", s, m, d) : s \in Shas, m \in EqMessages, d \in EqDiffs}
OtherValues ==
  {Value(c, s, m, None) : c \in {"Commit", "str"}, s \in Shas, m \in EqMessages}
    \cup {Value("NoneType", None, None, None)}

\* The hash values of str of a process: any function, collisions included.
StrHashes == [Shas -> {0, 1}]

InitEq ==
  /\ InitExtractIdle
  /\ InitBatchIdle
  /\ InitGraphIdle
  /\ InitEarlierIdle
  /\ InitCollIdle
  /\ InitPagerIdle
  /\ InitNestIdle
  /\ InitResumeIdle
  /\ InitEnumIdle
  /\ InitPrIdle
  /\ lhs \in CommitElements
  /\ rhs \in CommitElements \cup OtherValues
  /\ str_hash \in StrHashes
  /\ compared = NotCompared

\* lhs == rhs, and hash(lhs) and hash(rhs) when rhs is a CommitElement too.
Compare ==
  /\ ~compared.done
  /\ compared' = [done |-> TRUE,
                  eq |-> __eq__(lhs, rhs),
                  hash_lhs |-> __hash__(lhs, str_hash),
                  hash_rhs |-> IF IsCommitElement(rhs) THEN __hash__(rhs, str_hash) ELSE -1]
  /\ UNCHANGED <<notEqVars, lhs, rhs, str_hash>>

NextEq == Compare

SpecEq == InitEq /\ [][NextEq]_vars

\* --------------------------------- extraction resumed from the returned cursor
\* A caller that starts with no cursor over a remote history that stays as it
\* is, and passes to every call the cursor that the call before returned.
InitResume ==
  /\ remote \in InjSeqs(Shas, MaxHist)
  /\ disk \in {NoDir} \cup {Dir(h, d) : h \in Suffixes(remote), d \in BOOLEAN}
  /\ client = NewClient
  /\ call = NoCall
  /\ listed = NoListed
  /\ ret = NoRet
  /\ InitBatchIdle
  /\ InitGraphIdle
  /\ InitEarlierIdle
  /\ InitCollIdle
  /\ InitPagerIdle
  /\ InitNestIdle
  /\ InitEnumIdle
  /\ InitPrIdle
  /\ InitEqIdle
  /\ resumed = NotResumed

\* The hexsha of the commits of a batch, in the order of the batch.
HexshaOf(b) == [i \in 1..Len(b.raw_commits) |-> b.raw_commits[i].git_commit.hexsha]

\* batch, cursor = repository.extract_commits_batch(n, branch, cursor)
ResumeExtract ==
  /\ resumed.calls < MaxCalls
  /\ \E n \in BatchSizes, f \in Reachable(client, disk) :
       LET c == resumed.cursor
           lc == list_commits(client, disk, remote, n, KnownBranch, c, f)
           r == extract_commits_batch(RepoUrl, lc, n, KnownBranch, c)
       IN /\ client' = lc.client
          /\ disk' = lc.disk
          /\ call' = [op |-> "extract", batch_size |-> n, branch |-> KnownBranch,
                      last_sha |-> c, fault |-> f, again |-> FALSE]
          /\ listed' = Listed(lc)
          /\ ret' = r
          /\ resumed' = [cursor |-> r.cursor,
                         got |-> resumed.got \o HexshaOf(r.batch),
                         sizes |-> Append(resumed.sizes, n),
                         calls |-> resumed.calls + 1]
  /\ UNCHANGED <<remote, notExtractResumeVars>>

NextResume == ResumeExtract

SpecResume == InitResume /\ [][NextResume]_vars

\* ------------------------------------- the stats of a Diff with nested elements
\* The stats of the elements: every element adds its own power of two to each
\* sum, so a sum tells which elements went into it.
NodeStats ==
  [n1 |-> DiffStats(1, 8, 1, 64), n2 |-> DiffStats(2, 16, 1, 128),
   n3 |-> DiffStats(4, 32, 1, 256)]

DiffTypes == {"FILE", "HUNK"}

\* The DiffElement that node n stands for.
ElementOf(n) == DiffElement(etype[n], NodeStats[n], ident[n], "modified", NoMetadata)

InitNested ==
  /\ InitExtractIdle
  /\ InitBatchIdle
  /\ InitGraphIdle
  /\ roots = <<>>
  /\ kids = NoKids
  /\ parent = NoParents
  /\ ident \in [Nodes -> Identifiers]
  /\ query = NoQuery
  /\ InitFlatIdle /\ InitFileIdle /\ InitMetaIdle /\ InitAssessIdle
  /\ InitCollIdle
  /\ InitPagerIdle
  /\ InitEnumIdle /\ InitPrIdle /\ InitEqIdle /\ InitResumeIdle
  /\ etype \in [Nodes -> DiffTypes]

\* diff.get_aggregated_stats(), and list(diff.walk()) of the same Diff
NestedStats ==
  /\ roots # <<>>
  /\ agg' = get_aggregated_stats([i \in 1..Len(roots) |-> ElementOf(roots[i])])
  /\ query' = [op |-> "stats", arg |-> None, out |-> walk(roots, kids).out,
               raised |-> walk(roots, kids).raised]
  /\ UNCHANGED <<notTreeAggVars, roots, kids, parent, ident, flat>>

NextNested == ForestAddElement \/ ForestAddChildren \/ NestedStats

SpecNested == InitNested /\ [][NextNested]_vars

\* --------------------------------------- a generator of a paged connection
\* What the server may answer a query with: any page, or an error that makes
\* _query raise.
PageNodes == {<<>>, <<"p1">>, <<"p1", "p2">>}
EndCursors == {None, "c1"}
Pages == {Page(ns, h, c) : ns \in PageNodes, h \in BOOLEAN, c \in EndCursors}
QueryRaises == Page(<<>>, FALSE, "raise")

InitPager ==
  /\ InitExtractIdle
  /\ InitBatchIdle
  /\ InitGraphIdle
  /\ InitEarlierIdle
  /\ InitCollIdle
  /\ InitNestIdle
  /\ InitEnumIdle
  /\ InitPrIdle
  /\ InitEqIdle
  /\ InitResumeIdle
  /\ pager = NewPager

\* The generator sends the query of the next page.
PagerQuery ==
  /\ pager.pc = "query"
  /\ Len(pager.sent) < MaxPages
  /\ \E answer \in Pages \cup {QueryRaises} : pager' = SendQuery(pager, answer)
  /\ UNCHANGED notPagerVars

\* The generator yields the next node of the page it holds.
PagerYield ==
  /\ pager.pc = "yield"
  /\ pager.i <= Len(Last(pager.pages).nodes)
  /\ pager' = YieldNode(pager)
  /\ UNCHANGED notPagerVars

\* The nodes of the page are through: the generator reads pageInfo.
PagerAfterPage ==
  /\ pager.pc = "yield"
  /\ pager.i > Len(Last(pager.pages).nodes)
  /\ pager' = AfterPage(pager, Last(pager.pages))
  /\ UNCHANGED notPagerVars

NextPager == PagerQuery \/ PagerYield \/ PagerAfterPage

SpecPager == InitPager /\ [][NextPager]_vars

\* ------------------------------------------------------------ a collection
Raws == {"r1", "r2"}

InitColl ==
  /\ InitExtractIdle
  /\ InitBatchIdle
  /\ InitGraphIdle
  /\ InitEarlierIdle
  /\ InitPagerIdle
  /\ InitNestIdle
  /\ InitEnumIdle
  /\ InitPrIdle
  /\ InitEqIdle
  /\ InitResumeIdle
  /\ coll = NewCollection
  /\ fetch_calls = 0

\* collection._fetch_elements(client, state), whatever the client has to give
\* and wherever the loop fails.
FetchElements ==
  /\ fetch_calls < MaxFetches
  /\ \E raw_data \in SeqsUpTo(Raws, MaxRecords) : \E fails \in 0..(Len(raw_data) + 1) :
       coll' = _fetch_elements(coll, raw_data, fails)
  /\ fetch_calls' = fetch_calls + 1
  /\ UNCHANGED notCollVars

NextColl == FetchElements

SpecColl == InitColl /\ [][NextColl]_vars

\* ------------------------------------------------------- a CommitGraph
GraphShas == {"a", "b"}

Elements ==
  {CommitElement(s, ps) : s \in GraphShas, ps \in SeqsUpTo(GraphShas, MaxParents)}

\* A graph constructed from any list of elements.
InitGraph ==
  /\ InitExtractIdle
  /\ InitBatchIdle
  /\ InitTransformIdle
  /\ elements \in SeqsUpTo(Elements, MaxElems)
  /\ index = CommitMap(elements, 1, NoGraph)
  /\ yielded = NotAsked

\* list(graph.iter_parents(e)), for an element of the graph or any other;
\* iter_parents changes nothing, so one call per graph shows them all.
IterParents ==
  /\ ~yielded.done
  /\ \E e \in Elements :
       yielded' = [asked |-> e, out |-> iter_parents(e, index), done |-> TRUE]
  /\ UNCHANGED <<extractVars, obj, elements, index, transformVars>>

NextGraph == IterParents

SpecGraph == InitGraph /\ [][NextGraph]_vars

\* ------------------------------------------------------------------ claims
Extracted == call.op = "extract"
Returned == Extracted /\ listed.raised = NoExc
Raised == Extracted /\ listed.raised # NoExc

\* The history the last call traversed.
Hist == disk.hist
Occurs(x, h) == \E i \in 1..Len(h) : h[i] = x
Min(a, b) == IF a < b THEN a ELSE b

\* C1: every extract_commits_batch call returns, and returns a batch of its own
\* (holding this call's commits and nothing else) that was created 'loading' and
\* is 'success' or 'failed', never 'loading', whether list_commits returned or
\* raised.
C1_ReturnsTerminalBatch ==
  Extracted =>
    /\ ret.propagated = NoExc
    /\ Len(ret.trail) >= 2
    /\ ret.trail[1] = "loading"
    /\ Last(ret.trail) = ret.batch.status
    /\ ret.batch.status \in {"success", "failed"}
    /\ ret.batch.source_info = [repo_url |-> RepoUrl, branch |-> call.branch]
    /\ Len(ret.batch.raw_commits) = Len(listed.commits)
    /\ \A i \in 1..Len(listed.commits) :
         ret.batch.raw_commits[i].git_commit = listed.commits[i]

C1_Witness ==
  /\ Raised
  /\ ret.batch.status = "failed"
  /\ ret.trail = <<"loading", "failed">>

\* C2: on one batch, under any sequence of add_commits, validate and mark_failed
\* calls, a status other than 'loading' never changes again.
C2_StatusIsTerminal ==
  [][obj.status # "loading" => obj'.status = obj.status]_vars

\* C3: list_commits(N, branch, last_sha=c) with c in the history h returns at most
\* N commits, exactly those that follow c in h, in order; with no cursor the
\* first min(N, |h|) commits of h.
C3_WindowAfterCursor ==
  (Returned /\ (call.last_sha = None \/ Occurs(call.last_sha, Hist))) =>
    LET k == IF call.last_sha = None THEN 0 ELSE IndexOf(Hist, call.last_sha, 1)
        m == Min(k + call.batch_size, Len(Hist))
    IN /\ Len(listed.commits) <= call.batch_size
       /\ listed.commits = Commits(SubSeq(Hist, k + 1, m))

\* C4: the cursor returned is the hexsha of the last commit returned when there is
\* one, and otherwise None or the cursor supplied.
C4_CursorIsLastReturned ==
  /\ Returned =>
       IF Len(listed.commits) > 0
         THEN listed.new_last_sha = listed.commits[Len(listed.commits)].hexsha
         ELSE listed.new_last_sha = None
  /\ Extracted =>
       LET rc == ret.batch.raw_commits
       IN IF Len(rc) > 0
            THEN ret.cursor = rc[Len(rc)].git_commit.hexsha
            ELSE ret.cursor \in {None, call.last_sha}

C4_Witness ==
  /\ Extracted
  /\ Len(ret.batch.raw_commits) = 2
  /\ call.last_sha # None
  /\ ret.cursor = ret.batch.raw_commits[2].git_commit.hexsha

\* C5: when list_commits raises, extract_commits_batch propagates nothing and
\* returns the batch 'failed', its error the exception's message, with the cursor
\* it was called with.
C5_ExceptionIsRecorded ==
  Raised =>
    /\ ret.propagated = NoExc
    /\ ret.batch.status = "failed"
    /\ ret.batch.error = listed.raised.msg
    /\ ret.batch.error # None
    /\ ret.cursor = call.last_sha

C5_Witness ==
  /\ Raised
  /\ call.last_sha # None
  /\ call.fault = "pull"
  /\ ret.batch.error = "pull failed"
  /\ ret.cursor = call.last_sha

\* C6: on a validation failure (collected count differs from the batch size, no
\* exception) the batch is 'failed' with a message and the cursor returned is the
\* last_sha the call was given.
C6_ValidationFailureKeepsCursor ==
  (Returned /\ Len(listed.commits) # call.batch_size) =>
    /\ ret.batch.status = "failed"
    /\ ret.batch.error # None
    /\ ret.cursor = call.last_sha

\* C7: with no exception the batch is 'success' with no error exactly when the
\* count collected equals the batch size, and otherwise 'failed' with
\* 'Expected <expected>, got <actual>'; a short final page is 'failed'.
C7_StrictEquality ==
  Returned =>
    LET k == Len(ret.batch.raw_commits)
        n == call.batch_size
    IN /\ k = Len(listed.commits)
       /\ (ret.batch.status = "success") <=> (k = n)
       /\ k = n => ret.batch.error = None
       /\ k # n => /\ ret.batch.status = "failed"
                   /\ ret.batch.error = "Expected " \o ToString(n) \o ", got " \o ToString(k)
       /\ (n = 2 /\ k = 1) => ret.batch.error = "Expected 2, got 1"

C7_Witness ==
  /\ Returned
  /\ call.batch_size = 2
  /\ Len(ret.batch.raw_commits) = 1
  /\ ret.batch.status = "failed"
  /\ ret.batch.error = "Expected 2, got 1"

\* C8: a cursor that never occurs in the traversal makes list_commits skip every
\* commit and return nothing without raising; a cursor that occurs makes it skip
\* every commit up to and including the cursor's, none of which is returned.
C8_SkipUntilMatchOrExhaust ==
  /\ (Extracted /\ call.last_sha # None /\ call.fault = "none"
        /\ call.branch = KnownBranch /\ ~Occurs(call.last_sha, Hist)) =>
       /\ listed.raised = NoExc
       /\ listed.commits = <<>>
  /\ (Returned /\ call.last_sha # None /\ Occurs(call.last_sha, Hist)) =>
       LET k == IndexOf(Hist, call.last_sha, 1)
       IN \A i \in 1..Len(listed.commits) : \A j \in 1..k :
            listed.commits[i].hexsha # Hist[j]

C8_Witness ==
  /\ Returned
  /\ call.last_sha # None
  /\ ~Occurs(call.last_sha, Hist)
  /\ Len(Hist) = 2
  /\ call.batch_size > 0
  /\ listed.commits = <<>>

\* C9: a call that repeats the arguments of the call before it, both returning,
\* returns the same commits and the same new cursor, and the earlier call left
\* the client and its repository as the later one finds and leaves them.
C9_Idempotent ==
  [][(call'.op = "extract" /\ call'.again /\ listed'.raised = NoExc) =>
       /\ listed'.commits = listed.commits
       /\ listed'.new_last_sha = listed.new_last_sha
       /\ client' = client
       /\ disk' = disk]_vars

C9_Witness ==
  /\ Returned
  /\ call.again
  /\ Len(listed.commits) > 0
  /\ ~disk.dirty
  /\ disk.hist # remote

\* C10: iter_parents(e) yields the indexed elements of those parent ids of e that
\* the index holds, in e's parent order, skipping the others; nothing when none
\* of e's parents is indexed.
Indexed == {elements[i].hexsha : i \in 1..Len(elements)}

C10_IterParents ==
  yielded.done =>
    LET ps == yielded.asked.parents_hexsha
        present == {i \in 1..Len(ps) : ps[i] \in Indexed}
        rank(i) == Cardinality({j \in present : j <= i})
    IN /\ DOMAIN index = Indexed
       /\ Len(yielded.out) = Cardinality(present)
       /\ \A i \in present :
            /\ yielded.out[rank(i)].hexsha = ps[i]
            /\ \E k \in 1..Len(elements) :
                 /\ elements[k] = yielded.out[rank(i)]
                 /\ \A l \in (k + 1)..Len(elements) : elements[l].hexsha # ps[i]
       /\ (present = {}) => yielded.out = <<>>

C10_Witness ==
  /\ yielded.done
  /\ Len(yielded.asked.parents_hexsha) = 2
  /\ yielded.asked.parents_hexsha[1] \notin Indexed
  /\ yielded.asked.parents_hexsha[2] \in Indexed
  /\ Len(yielded.out) = 1

\* ---------------------------------------------------------------- Diff trees
Count(s, n) == Cardinality({i \in 1..Len(s) : s[i] = n})

RECURSIVE CountIn(_, _)
CountIn(S, n) ==
  IF S = {} THEN 0
  ELSE LET p == CHOOSE m \in S : TRUE IN Count(kids[p], n) + CountIn(S \ {p}, n)

\* Every element is held once at most, and none is below itself.
IsForest ==
  /\ \A n \in Nodes : Count(roots, n) + CountIn(Nodes, n) <= 1
  /\ \A n \in Nodes : n \notin Grow(Range(kids[n]))

Pos(s, n) == CHOOSE i \in 1..Len(s) : s[i] = n

\* C11: after any sequence of Diff.add_element and DiffElement.add_children
\* calls every element is exclusively owned: it is in the children list of at
\* most one element, it is not both a root and a child, and
\* every c of e.children has c.parent = e.
C11_ExclusiveOwnership ==
  /\ \A c \in Nodes : Cardinality({e \in Nodes : c \in Range(kids[e])}) <= 1
  /\ \A c \in Nodes : ~(Count(roots, c) > 0 /\ CountIn(Nodes, c) > 0)
  /\ \A e \in Nodes : \A c \in Range(kids[e]) : parent[c] = e

\* C13: find_element_by_identifier returns the first root with the identifier
\* whenever some root has it, whatever the descendants of the other roots are;
\* only when no root has it does it return a descendant with the identifier,
\* and None when no element of the forest has it.
C13_RootsFirst ==
  query.op = "find" =>
    LET hits == {i \in 1..Len(roots) : ident[roots[i]] = query.arg}
        below == {n \in Grow(Range(roots)) : ident[n] = query.arg}
    IN /\ ~query.raised
       /\ hits # {} =>
            query.out = <<roots[CHOOSE i \in hits : \A j \in hits : i <= j]>>
       /\ (hits = {} /\ below # {}) =>
            \E n \in below : query.out = <<n>>
       /\ below = {} => query.out = <<>>

\* C14: over a forest, walk yields every element reachable from the roots
\* exactly once, a parent before its children, and everything at or below one
\* element before the element that follows it in the same list (the roots, or
\* one element's children): pre-order, in insertion order.
C14_WalkPreOrder ==
  (query.op = "walk" /\ IsForest) =>
    LET out == query.out
        Lists == {roots} \cup {kids[p] : p \in Grow(Range(roots))}
    IN /\ ~query.raised
       /\ Range(out) = Grow(Range(roots))
       /\ Len(out) = Cardinality(Grow(Range(roots)))
       /\ \A p \in Range(out) : \A c \in Range(kids[p]) : Pos(out, p) < Pos(out, c)
       /\ \A l \in Lists : \A i \in 1..Len(l) : \A j \in 1..Len(l) :
            i < j => \A d \in Grow({l[i]}) : Pos(out, d) < Pos(out, l[j])

C14_Witness ==
  /\ query.op = "walk"
  /\ IsForest
  /\ Len(roots) = 2
  /\ kids[roots[1]] # <<>>
  /\ Len(query.out) = 3

\* ------------------------------------------------------ aggregated stats
RECURSIVE SumOver(_, _)
SumOver(I, f) ==
  IF I = {} THEN 0
  ELSE LET i == CHOOSE j \in I : TRUE IN flat[i].stats[f] + SumOver(I \ {i}, f)

FileAt == {i \in 1..Len(flat) : flat[i].element_type = "FILE"}

\* C12: for a Diff of root elements only, get_aggregated_stats returns the sums
\* of lines_added, lines_removed and hunks_count over the FILE elements and the
\* number of distinct identifiers among them as files_changed; elements of
\* other types contribute nothing.
C12_AggregatedStats ==
  agg # NoStats =>
    /\ agg.lines_added = SumOver(FileAt, "lines_added")
    /\ agg.lines_removed = SumOver(FileAt, "lines_removed")
    /\ agg.hunks_count = SumOver(FileAt, "hunks_count")
    /\ agg.files_changed = Cardinality({flat[i].identifier : i \in FileAt})

C12_Witness ==
  /\ agg # NoStats
  /\ \E i \in FileAt, j \in FileAt :
       i # j /\ flat[i].identifier = flat[j].identifier /\ flat[i].stats.lines_added > 0
  /\ \E i \in 1..Len(flat) : flat[i].element_type = "HUNK" /\ flat[i].stats.lines_added > 0

\* ----------------------------------------------------------- file elements
\* C15: to_diff drops the descriptors whose element construction raises and
\* goes on: the Diff holds exactly one FILE element for every descriptor that
\* does not raise, in the order of the descriptors, nothing for the others, and
\* no exception leaves to_diff.
C15_DropAndContinue ==
  built.done =>
    LET good == SelectSeq(items, LAMBDA d : ~d.raises)
    IN /\ ~built.raised
       /\ Len(built.elements) = Len(good)
       /\ \A k \in 1..Len(good) :
            /\ built.elements[k].element_type = "FILE"
            /\ built.elements[k] = _create_file_element_body(good[k])

C15_Witness ==
  /\ built.done
  /\ Len(items) = 2
  /\ items[1].raises
  /\ ~items[2].raises
  /\ Len(built.elements) = 1
  /\ built.elements[1].change_type = ChangeTypeAndPath(items[2])[1]

\* C16: the change type of a file element is the first that applies of
\* new_file -> ADDED, deleted_file -> REMOVED, renamed_file -> RENAMED,
\* copied_file -> COPIED, and MODIFIED otherwise, for every combination of flags.
C16_ChangeTypeOrder ==
  (made.done /\ ~item.raises) =>
    made.value.change_type =
      IF item.new_file THEN "added"
      ELSE IF item.deleted_file THEN "removed"
      ELSE IF item.renamed_file THEN "renamed"
      ELSE IF item.copied_file THEN "copied"
      ELSE "modified"

\* C17: the element of a binary file has lines_added = 0, lines_removed = 0 and
\* hunks_count = 0, and hunks_count is 1 exactly when the file is not binary and
\* lines_added > 0 or lines_removed > 0.
C17_BinaryHasNoLines ==
  (made.done /\ ~item.raises) =>
    LET st == made.value.stats
        binary == made.value.metadata.is_binary
    IN /\ binary => (st.lines_added = 0 /\ st.lines_removed = 0 /\ st.hunks_count = 0)
       /\ st.hunks_count = 1 <=> (~binary /\ (st.lines_added > 0 \/ st.lines_removed > 0))

\* ------------------------------------------------------- commit metadata
ClassificationKeys ==
  {"branch_types", "branch_summary", "has_lost_branch", "is_bot_related", "bot_type",
   "message_is_not_empty", "message_is_conventional", "message_is_within_length",
   "message_has_forbidden_words"}

\* C18: once a CommitMetadata is constructed its custom_attributes holds the keys
\* branch_types, branch_summary, has_lost_branch, is_bot_related, bot_type and
\* the four message_* keys, whatever the input: an empty message and a failing
\* branch query included.
C18_KeysPresent ==
  (meta.done /\ ~meta.raised) => ClassificationKeys \subseteq DOMAIN meta.custom_attributes

C18_Witness ==
  /\ meta.done
  /\ ~meta.raised
  /\ commit.branch_fails
  /\ commit.tag_fails
  /\ commit.branches_found # <<>>
  /\ commit.message.text = ""
  /\ meta.custom_attributes.bot_type = None
  /\ meta.custom_attributes.branch_types = <<>>

\* C19: is_bot_related is true exactly when a reachable branch classifies as
\* DEPENDABOT, RENOVATE, SEMAPHORE or GITHUB_ACTIONS or the author's name or
\* email matches a bot pattern; so a bot_type that is not null implies
\* is_bot_related.
C19_BotRelated ==
  (meta.done /\ ~meta.raised) =>
    LET ca == meta.custom_attributes
        name == Lower(IF commit.author.name # None THEN commit.author.name ELSE "")
        email == Lower(IF commit.author.email # None THEN commit.author.email ELSE "")
        bot_branch ==
          \E i \in 1..Len(meta.branches) :
            from_branch_name(meta.branches[i]) \in
              {"dependabot", "renovate", "semaphore", "github_actions"}
        bot_author ==
          \E i \in 1..Len(BotType) : Searches(BotType[i], name) \/ Searches(BotType[i], email)
    IN /\ ca.is_bot_related <=> (bot_branch \/ bot_author)
       /\ ca.bot_type # None => ca.is_bot_related

C19_Witness ==
  /\ meta.done
  /\ ~meta.raised
  /\ meta.custom_attributes.is_bot_related
  /\ meta.custom_attributes.bot_type = None
  /\ meta.branches = <<"semaphore/ci">>

\* -------------------------------------------------------- message quality
\* C20: the four message checks do not depend on one another:
\* message_is_within_length is true exactly when the message is no longer than
\* the configured maximum, whatever the other three flags are, so the empty
\* string has message_is_within_length true and the other three flags false.
C20_WithinLengthIndependent ==
  (validation.done /\ ~validation.raised) =>
    LET r == validation.result
        m == assessor.message.text
    IN /\ r.message_is_within_length <=> (Len(m) <= assessor.max_length_commit)
       /\ m = "" =>
            /\ r.message_is_within_length
            /\ ~r.message_is_not_empty
            /\ ~r.message_is_conventional
            /\ ~r.message_has_forbidden_words

C22_PriorityCascade ==
  pr_state.done =>
    LET has(k) == k \in DOMAIN payload
    IN /\ pr_state.value \in PRState
       /\ pr_state.value =
            IF has("draft") /\ payload["draft"] = JBool(TRUE) THEN "draft"
            ELSE IF has("merged_at") /\ payload["merged_at"] # JNull THEN "merged"
            ELSE IF has("state") /\ payload["state"] = JStr("open") THEN "open"
            ELSE "closed"

\* A draft that carries a merge timestamp and an open state was classified, and
\* it is DRAFT.
C22_Witness ==
  /\ pr_state.done
  /\ DOMAIN payload = {"draft", "merged_at", "state"}
  /\ payload["draft"] = JBool(TRUE)
  /\ payload["merged_at"] # JNull
  /\ payload["state"] = JStr("open")
  /\ pr_state.value = "draft"

\* ------------------------------------------------------ CommitElement identity
\* C23: the identity of a CommitElement is the commit id alone.  Two
\* CommitElements are equal exactly when the hexsha of their commits are equal,
\* whatever their diffs and other commit fields are; equal elements have equal
\* hashes; and a CommitElement never equals a value that is no CommitElement.
C23_IdentityIsHexsha ==
  compared.done =>
    /\ IsCommitElement(rhs) => (compared.eq <=> lhs.hexsha = rhs.hexsha)
    /\ compared.eq => compared.hash_lhs = compared.hash_rhs
    /\ ~IsCommitElement(rhs) => ~compared.eq

\* Two elements of one commit with different diffs and messages were compared,
\* and they are equal.
C23_Witness ==
  /\ compared.done
  /\ IsCommitElement(rhs)
  /\ lhs.hexsha = rhs.hexsha
  /\ lhs.diff # rhs.diff
  /\ lhs.message # rhs.message
  /\ compared.eq

\* ------------------------------------------------------- resumed extraction
\* Whether s starts t.
IsPrefix(s, t) == Len(s) <= Len(t) /\ SubSeq(t, 1, Len(s)) = s

\* C24: extraction resumed from the cursor never visits a commit twice.  Over
\* a history that does not change, starting with no cursor and passing to every
\* call the cursor that the call before returned, no commit is returned in more
\* than one batch, and the batches returned so far, one after the other, are a
\* prefix of the history in the order of traversal, also after the history has
\* been exhausted.
C24_NeverRevisits ==
  /\ \A i, j \in 1..Len(resumed.got) : i # j => resumed.got[i] # resumed.got[j]
  /\ IsPrefix(resumed.got, disk.hist)

\* --------------------------------------------------- stats of nested elements
RECURSIVE SumNodes(_, _)
SumNodes(S, f) ==
  IF S = {} THEN 0
  ELSE LET n == CHOOSE m \in S : TRUE IN NodeStats[n][f] + SumNodes(S \ {n}, f)

\* The FILE elements that walk() yielded.
WalkedFiles == {n \in Range(query.out) : etype[n] = "FILE"}

\* C25: for any forest of DiffElements, FILE elements below the roots included,
\* get_aggregated_stats is the sum over the whole tree: lines_added,
\* lines_removed and hunks_count are the sums over all FILE elements that walk()
\* yields, and files_changed is the number of distinct identifiers among them.
C25_SumOverTree ==
  (query.op = "stats" /\ ~query.raised) =>
    /\ agg.lines_added = SumNodes(WalkedFiles, "lines_added")
    /\ agg.lines_removed = SumNodes(WalkedFiles, "lines_removed")
    /\ agg.hunks_count = SumNodes(WalkedFiles, "hunks_count")
    /\ agg.files_changed = Cardinality({ident[n] : n \in WalkedFiles})

\* --------------------------------------------------------- paged connections
RECURSIVE NodesOf(_, _)
\* The nodes of the first k pages, one page after the other.
NodesOf(ps, k) == IF k = 0 THEN <<>> ELSE NodesOf(ps, k - 1) \o ps[k].nodes

\* C26: _paginate_repository_connection follows the page protocol.  The first
\* query is sent with cursor null and every later query with the endCursor of
\* the page just received; all nodes of a page are yielded, in order, before the
\* next query is sent; after the first page whose hasNextPage is false no query
\* is sent any more and the iterator ends, so that what it yielded is the nodes
\* of the pages in the order of the pages.
C26_PageProtocol ==
  LET sent == pager.sent
      pages == pager.pages
      whole == IF pager.pc = "yield" THEN Len(pages) - 1 ELSE Len(pages)
  IN /\ Len(sent) > 0 => sent[1] = None
     /\ \A k \in 2..Len(sent) : pages[k - 1].hasNextPage /\ sent[k] = pages[k - 1].endCursor
     /\ pager.out = NodesOf(pages, whole)
                      \o (IF pager.pc = "yield"
                            THEN SubSeq(Last(pages).nodes, 1, pager.i - 1) ELSE <<>>)
     /\ pager.pc = "query" => Len(sent) = Len(pages) /\ pager.out = NodesOf(pages, Len(pages))
     /\ pager.pc = "done" =>
          /\ ~Last(pages).hasNextPage
          /\ Len(sent) = Len(pages)
          /\ pager.out = NodesOf(pages, Len(pages))
     /\ (Len(pages) > 0 /\ ~Last(pages).hasNextPage) => pager.pc \in {"yield", "done"}

\* The iterator ended after three pages with nodes, the second query sent with
\* a cursor that is not null.
C26_Witness ==
  /\ pager.pc = "done"
  /\ Len(pager.pages) = 3
  /\ pager.sent[2] # None
  /\ Len(pager.out) >= 3

\* ---------------------------------------------------------------- collections
\* C27: a collection is populated by exactly one complete fetch.  After any
\* sequence of _fetch_elements calls on one collection, calls that raise
\* part-way included, whenever _fetched is true the elements are exactly the
\* converted records of a single fetch of the client, in order and with nothing
\* twice.
C27_OneCompleteFetch ==
  coll._fetched =>
    \E k \in 1..Len(coll.fetches) :
      coll._elements = [i \in 1..Len(coll.fetches[k]) |-> from_dict(coll.fetches[k][i])]

====
